---- MODULE Spec2Model ----
(***************************************************************************)
(* A model of the grid codec and the streaming server of the Augmented     *)
(* Reality Sandbox: the bit stream reader and writer, the Huffman builder,  *)
(* encoder and decoder, the intra-frame and inter-frame codecs, and the     *)
(* remote server's per-client protocol.                                     *)
(*                                                                          *)
(* A Bits value (a 32-bit unsigned register) is a function from 1..32 to    *)
(* {0,1}, index 1 being the most significant bit.                           *)
(***************************************************************************)
EXTENDS Integers, Sequences, FiniteSets, TLC

VARIABLES
  sinkBuffer,     \* BitSink::buffer
  freeBits,       \* BitSink::freeBits
  file,           \* the words written to the transport, in order
  filePos,        \* number of words the reader has taken from the transport
  sourceBuffer,   \* BitSource::buffer
  usedBits,       \* BitSource::usedBits
  written,        \* the (pattern, width) pairs of the values written so far
  readValues,     \* the values read back so far
  phase,          \* position of the bit stream test: "write", "read"
  codeNodes,      \* HuffmanBuilder::codeNodes (index i of the code is element i+1)
  numLeaves,      \* HuffmanBuilder::numLeaves
  nodeSorter,     \* the priority heap of buildTree
  builderPc,      \* position of the builder's caller: "add", "build", "built"
  codebook,       \* result of buildEncodingCodebook (element i+1 is the code of leaf i)
  decodingTree,   \* result of buildDecodingTree (element i+1 is node i)
  frameWidth,     \* width of the grids of the codec test
  frameHeight,    \* height of the grids of the codec test
  pixels0,        \* the reference grid (inter-frame codec), row-major
  pixels1,        \* the grid to compress, row-major
  decoded,        \* the grid the decompressor produced
  codecPc,        \* position of the codec test: "start", "compressed", "decompressed"
  zeroRunLength,  \* InterFrameCompressor::zeroRunLength
  clients,        \* RemoteServer::clients: the list of client records
  numClients,     \* RemoteServer::numClients
  listeners,      \* the keys of the dispatcher's I/O event listeners
  numConnections, \* number of connections accepted so far
  commPc,         \* position of the communication thread: "dispatch", "broadcast"
  clientPositions,   \* the value last posted to RemoteServer::clientPositions
  currentGrid,    \* RemoteServer::currentGrid
  quantized,      \* the two quantized grid triplets (bathymetry, waterLevel, snowHeight)
  gridsBuffer,    \* the three slots of RemoteServer::grids
  gridsLocked,    \* the slot of grids locked by the communication thread
  gridsMostRecent,   \* the slot of grids last posted
  gridsNext,      \* the slot of grids handed out by startNewValue
  requestSlot,    \* the slot the active grid request fills, or NoSlot
  numTriplets,    \* number of grid triplets the simulation delivered so far
  numBroadcasts,  \* number of broadcast cycles run so far
  sentLog,        \* per connection: the triplets sent to it
  ackedAt,        \* per connection: numBroadcasts at its handshake ack, or NoAck
  departed,       \* the client disconnected last and why, or "no"
  shutdownPc      \* position of the main thread in ~RemoteServer: "running", "joining", "joined"

bitVars == <<sinkBuffer, freeBits, file, filePos, sourceBuffer, usedBits>>
logVars == <<written, readValues, phase>>
huffVars == <<codeNodes, numLeaves, nodeSorter, builderPc, codebook, decodingTree>>
codecVars == <<frameWidth, frameHeight, pixels0, pixels1, decoded, codecPc, zeroRunLength>>
serverVars == <<clients, numClients, listeners, numConnections, commPc, clientPositions,
                currentGrid, quantized, gridsBuffer, gridsLocked,
                gridsMostRecent, gridsNext, requestSlot, numTriplets, numBroadcasts,
                sentLog, ackedAt, departed, shutdownPc>>
vars == <<bitVars, logVars, huffVars, codecVars, serverVars>>

-----------------------------------------------------------------------------
(* Bits.h: the register type                                                *)

maxNumBits == 32

\* Bounds of the bit stream specification
MaxWrites == 2

BitIndex == 1..maxNumBits

Zero32 == [i \in BitIndex |-> 0]

\* The outcomes of a shift whose count is not less than the register width
\* (undefined in C++): the count taken modulo the width, or all bits shifted out.
WideShiftOutcomes == {"masked", "zero"}

ShlIn(b, n) == [i \in BitIndex |-> IF i + n <= maxNumBits THEN b[i + n] ELSE 0]

ShrIn(b, n) == [i \in BitIndex |-> IF i - n >= 1 THEN b[i - n] ELSE 0]

\* b << n
Shl(b, n, wide) ==
  IF n < maxNumBits THEN ShlIn(b, n)
  ELSE IF wide = "masked" THEN ShlIn(b, n % maxNumBits) ELSE Zero32

\* b >> n
Shr(b, n, wide) ==
  IF n < maxNumBits THEN ShrIn(b, n)
  ELSE IF wide = "masked" THEN ShrIn(b, n % maxNumBits) ELSE Zero32

\* a | b
BitOr(a, b) == [i \in BitIndex |-> IF a[i] = 1 \/ b[i] = 1 THEN 1 ELSE 0]

\* a & b
BitAnd(a, b) == [i \in BitIndex |-> IF a[i] = 1 /\ b[i] = 1 THEN 1 ELSE 0]

\* b - 1 modulo 2^32: the lowest set bit is cleared and every bit below it set
Dec(b) ==
  LET ones == {i \in BitIndex : b[i] = 1}
      low == IF ones = {} THEN 0 ELSE CHOOSE i \in ones : \A j \in ones : j <= i
  IN [i \in BitIndex |-> IF i < low THEN b[i] ELSE IF i = low THEN 0 ELSE 1]

\* Bits(0x1U)
One32 == [i \in BitIndex |-> IF i = maxNumBits THEN 1 ELSE 0]

\* The Bits value of a natural number below 2^31
ToBits(n) ==
  [i \in BitIndex |-> IF i = 1 THEN 0 ELSE (n \div (2 ^ (maxNumBits - i))) % 2]

\* The value of the low k bits of b, k <= 30
RECURSIVE LowValue(_, _)
LowValue(b, k) ==
  IF k = 0 THEN 0
  ELSE b[maxNumBits - k + 1] * (2 ^ (k - 1)) + LowValue(b, k - 1)

-----------------------------------------------------------------------------
(* BitSink.h                                                                *)

\* A sink is [buffer, freeBits, file]

NewSink(f) == [buffer |-> Zero32, freeBits |-> maxNumBits, file |-> f]

SinkFlush(s, wide) ==
  IF s.freeBits # maxNumBits
  THEN [buffer |-> Zero32, freeBits |-> maxNumBits,
        file |-> Append(s.file, Shl(s.buffer, s.freeBits, wide))]
  ELSE s

\* write with the split branch keeping the wrong part of the value for the new register
SinkWriteSplitKeepsHigh(s, bits, numBits, wide) ==
  IF s.freeBits >= numBits
  THEN [s EXCEPT !.buffer = BitOr(Shl(s.buffer, numBits, wide), bits),
                 !.freeBits = s.freeBits - numBits]
  ELSE IF s.freeBits = 0
  THEN [buffer |-> bits, freeBits |-> maxNumBits - numBits,
        file |-> Append(s.file, s.buffer)]
  ELSE LET lsb == numBits - s.freeBits
           full == BitOr(Shl(s.buffer, s.freeBits, wide), Shr(bits, lsb, wide))
       IN [buffer |-> Shr(bits, lsb, wide),
           freeBits |-> maxNumBits - lsb,
           file |-> Append(s.file, full)]

SinkWrite(s, bits, numBits, wide) ==
  IF s.freeBits >= numBits
  THEN [s EXCEPT !.buffer = BitOr(Shl(s.buffer, numBits, wide), bits),
                 !.freeBits = s.freeBits - numBits]
  ELSE IF s.freeBits = 0
  THEN [buffer |-> bits, freeBits |-> maxNumBits - numBits,
        file |-> Append(s.file, s.buffer)]
  ELSE LET lsb == numBits - s.freeBits
           full == BitOr(Shl(s.buffer, s.freeBits, wide), Shr(bits, lsb, wide))
       IN [buffer |-> BitAnd(bits, Dec(Shl(One32, lsb, wide))),
           freeBits |-> maxNumBits - lsb,
           file |-> Append(s.file, full)]

-----------------------------------------------------------------------------
(* BitSource.h                                                              *)

\* A source is [buffer, usedBits, file, pos]; file[pos+1] is the next word of
\* the transport.  A read past the last word (which blocks on a socket and
\* throws at the end of a file) is modelled as delivering a zero word with
\* pos counting past the end, so that pos > Len(file) records it.

NewSource(f) == [buffer |-> Zero32, usedBits |-> 0, file |-> f, pos |-> 0]

\* BitSource::flush leaving the register as it is
SourceFlushKeepsRegister(r) == r

SourceFlush(r) == [r EXCEPT !.buffer = Zero32, !.usedBits = 0]

SourceNeedsWord(r, numBits) == r.usedBits < numBits

\* file->read(buffer)
NextWord(r) == IF r.pos < Len(r.file) THEN r.file[r.pos + 1] ELSE Zero32

SourceCanRead(r, numBits) == SourceNeedsWord(r, numBits) => r.pos < Len(r.file)

\* read returns <<result, source'>>
SourceRead(r, numBits, wide) ==
  LET raw ==
        IF r.usedBits >= numBits
        THEN <<r.buffer,
               [r EXCEPT !.buffer = Shl(r.buffer, numBits, wide),
                         !.usedBits = r.usedBits - numBits]>>
        ELSE IF r.usedBits = 0
        THEN LET word == NextWord(r)
             IN <<word,
                  [r EXCEPT !.buffer = Shl(word, numBits, wide),
                            !.usedBits = maxNumBits - numBits,
                            !.pos = r.pos + 1]>>
        ELSE LET word == NextWord(r)
                 lsb == numBits - r.usedBits
             IN <<BitOr(r.buffer, Shr(word, r.usedBits, wide)),
                  [r EXCEPT !.buffer = Shl(word, lsb, wide),
                            !.usedBits = maxNumBits - lsb,
                            !.pos = r.pos + 1]>>
  IN <<Shr(raw[1], maxNumBits - numBits, wide), raw[2]>>

\* readBit returns <<result, source'>>
SourceReadBit(r, wide) ==
  LET filled == IF r.usedBits = 0
                THEN [r EXCEPT !.buffer = NextWord(r),
                               !.usedBits = maxNumBits,
                               !.pos = r.pos + 1]
                ELSE r
  IN <<Shr(filled.buffer, maxNumBits - 1, wide),
       [filled EXCEPT !.buffer = Shl(filled.buffer, 1, wide),
                      !.usedBits = filled.usedBits - 1]>>

\* The writer and the reader of the specifications
TheSink == [buffer |-> sinkBuffer, freeBits |-> freeBits, file |-> file]
TheSource == [buffer |-> sourceBuffer, usedBits |-> usedBits, file |-> file, pos |-> filePos]

SetSink(s) ==
  /\ sinkBuffer' = s.buffer
  /\ freeBits' = s.freeBits
  /\ file' = s.file

SetSource(r) ==
  /\ sourceBuffer' = r.buffer
  /\ usedBits' = r.usedBits
  /\ filePos' = r.pos

BitInit ==
  /\ sinkBuffer = Zero32
  /\ freeBits = maxNumBits
  /\ file = <<>>
  /\ filePos = 0
  /\ sourceBuffer = Zero32
  /\ usedBits = 0

-----------------------------------------------------------------------------
(* HuffmanBuilder.h, HuffmanBuilder.cpp                                     *)

\* ~0x0U, the code of an interior node of a decoding tree
Interior == -1

\* Bounds of the builder specification
MaxLeaves == 4
MaxFrequency == 2

\* CodeNode(size_t sFrequency): a leaf of the code creation tree
LeafCodeNode(f) ==
  [parent |-> 0, parentChildIndex |-> 2, childIndices |-> <<0, 0>>, frequency |-> f]

\* CodeNode(Index left, Index right, size_t sFrequency): an interior node
InteriorCodeNode(left, right, f) ==
  [parent |-> 0, parentChildIndex |-> 2, childIndices |-> <<left, right>>, frequency |-> f]

\* Code(): an empty code
EmptyCode == [bits |-> Zero32, numBits |-> 0]

\* getSmallest returning any element of the heap
SmallestIsAny(heap) == heap

\* The elements getSmallest can return: those no other element is below.
\* The heap's order among elements of equal frequency is not fixed by
\* NodeSorter::operator<=, so any of them may come first.
Smallest(heap) == {ns \in heap : \A other \in heap : ns.frequency <= other.frequency}

\* One pass of the while loop of buildEncodingCodebook, from node nodeIndex
\* with the code and mask assembled so far
RECURSIVE FollowToRoot(_, _, _, _)
FollowToRoot(nodes, nodeIndex, code, mask) ==
  IF nodes[nodeIndex + 1].parentChildIndex < 2
  THEN FollowToRoot(nodes, nodes[nodeIndex + 1].parent,
                    [bits |-> IF nodes[nodeIndex + 1].parentChildIndex # 0
                              THEN BitOr(code.bits, mask) ELSE code.bits,
                     numBits |-> code.numBits + 1],
                    Shl(mask, 1, "masked"))
  ELSE code

\* The code buildEncodingCodebook calculates for leaf i
LeafCode(nodes, i) == FollowToRoot(nodes, i, EmptyCode, One32)

\* No codebook: none built yet, or the array buildEncodingCodebook deleted
\* before throwing
NoCodebook == [thrown |-> FALSE, codes |-> <<>>]

\* buildEncodingCodebook refusing codes of the maximum width too
BuildEncodingCodebookRefusesMaxWidth(nodes, n) ==
  IF \E i \in 0..(n - 1) : LeafCode(nodes, i).numBits >= maxNumBits
  THEN [thrown |-> TRUE, codes |-> <<>>]
  ELSE [thrown |-> FALSE, codes |-> [i \in 1..n |-> LeafCode(nodes, i - 1)]]

\* buildEncodingCodebook: the array of codes, or the error thrown
BuildEncodingCodebook(nodes, n) ==
  IF \E i \in 0..(n - 1) : LeafCode(nodes, i).numBits > maxNumBits
  THEN [thrown |-> TRUE, codes |-> <<>>]
  ELSE [thrown |-> FALSE, codes |-> [i \in 1..n |-> LeafCode(nodes, i - 1)]]

RECURSIVE OrderTree(_, _, _, _)

\* orderTree adding the second subtree before the first
OrderTreeSecondFirst(nodes, n, nodeIndex, st) ==
  IF nodeIndex >= n
  THEN LET parentIndex == st.nextIndex
           st0 == [nextIndex |-> st.nextIndex + 1,
                   tree |-> [st.tree EXCEPT ![parentIndex + 1].code = Interior]]
           st1 == OrderTree(nodes, n, nodes[nodeIndex + 1].childIndices[2],
                    [st0 EXCEPT !.tree[parentIndex + 1].childIndices[2] = st0.nextIndex])
           st2 == OrderTree(nodes, n, nodes[nodeIndex + 1].childIndices[1],
                    [st1 EXCEPT !.tree[parentIndex + 1].childIndices[1] = st1.nextIndex])
       IN st2
  ELSE [nextIndex |-> st.nextIndex + 1,
        tree |-> [st.tree EXCEPT ![st.nextIndex + 1] =
                    [code |-> nodeIndex, childIndices |-> <<0, 0>>]]]

\* orderTree(nodeIndex, nextIndex, tree): st is [nextIndex, tree]
OrderTree(nodes, n, nodeIndex, st) ==
  IF nodeIndex >= n
  THEN LET parentIndex == st.nextIndex
           st0 == [nextIndex |-> st.nextIndex + 1,
                   tree |-> [st.tree EXCEPT ![parentIndex + 1].code = Interior]]
           st1 == OrderTree(nodes, n, nodes[nodeIndex + 1].childIndices[1],
                    [st0 EXCEPT !.tree[parentIndex + 1].childIndices[1] = st0.nextIndex])
           st2 == OrderTree(nodes, n, nodes[nodeIndex + 1].childIndices[2],
                    [st1 EXCEPT !.tree[parentIndex + 1].childIndices[2] = st1.nextIndex])
       IN st2
  ELSE [nextIndex |-> st.nextIndex + 1,
        tree |-> [st.tree EXCEPT ![st.nextIndex + 1] =
                    [code |-> nodeIndex, childIndices |-> <<0, 0>>]]]

\* Node(): the dummy constructor leaves the elements unset
UnsetNode == [code |-> "unset", childIndices |-> <<"unset", "unset">>]

\* buildDecodingTree
BuildDecodingTree(nodes, n) ==
  OrderTree(nodes, n, Len(nodes) - 1,
            [nextIndex |-> 0, tree |-> [i \in 1..Len(nodes) |-> UnsetNode]]).tree

LogIdle ==
  /\ written = <<>>
  /\ readValues = <<>>
  /\ phase = "idle"

CodecIdle ==
  /\ frameWidth = 0
  /\ frameHeight = 0
  /\ pixels0 = <<>>
  /\ pixels1 = <<>>
  /\ decoded = <<>>
  /\ codecPc = "idle"
  /\ zeroRunLength = 0

HuffIdle ==
  /\ codeNodes = <<>>
  /\ numLeaves = 0
  /\ nodeSorter = {}
  /\ builderPc = "add"
  /\ codebook = NoCodebook
  /\ decodingTree = <<>>

\* No server runs
ServerIdle ==
  /\ clients = <<>>
  /\ numClients = 0
  /\ listeners = {}
  /\ numConnections = 0
  /\ commPc = "idle"
  /\ clientPositions = <<>>
  /\ currentGrid = 1
  /\ quantized = <<>>
  /\ gridsBuffer = <<>>
  /\ gridsLocked = 0
  /\ gridsMostRecent = 0
  /\ gridsNext = 0
  /\ requestSlot = 0
  /\ numTriplets = 0
  /\ numBroadcasts = 0
  /\ sentLog = <<>>
  /\ ackedAt = <<>>
  /\ departed = <<>>
  /\ shutdownPc = "running"

Frequencies == 0..MaxFrequency

\* addLeaf(frequency)
AddLeaf(frequency) ==
  /\ builderPc = "add"
  /\ numLeaves < MaxLeaves
  /\ codeNodes' = Append(codeNodes, LeafCodeNode(frequency))
  /\ numLeaves' = numLeaves + 1
  /\ UNCHANGED <<nodeSorter, builderPc, codebook, decodingTree>>

\* buildTree, up to its loop: the heap is filled with the leaves
BuildTreeStart ==
  /\ builderPc = "add"
  /\ numLeaves >= 1
  /\ nodeSorter' = {[index |-> i, frequency |-> codeNodes[i + 1].frequency] :
                      i \in 0..(numLeaves - 1)}
  /\ builderPc' = "build"
  /\ UNCHANGED <<codeNodes, numLeaves, codebook, decodingTree>>

\* The merge with the two parentChildIndex values exchanged
MergedChildIndexSwapped(nodes, ns0, ns1) ==
  LET parentIndex == Len(nodes)
  IN Append([nodes EXCEPT ![ns0.index + 1].parent = parentIndex,
                          ![ns0.index + 1].parentChildIndex = 1,
                          ![ns1.index + 1].parent = parentIndex,
                          ![ns1.index + 1].parentChildIndex = 0],
            InteriorCodeNode(ns0.index, ns1.index, ns0.frequency + ns1.frequency))

\* The merge with the node extracted first, ns1, as child 0 of the new parent
MergedFirstExtractedFirst(nodes, ns0, ns1) ==
  LET parentIndex == Len(nodes)
  IN Append([nodes EXCEPT ![ns1.index + 1].parent = parentIndex,
                          ![ns1.index + 1].parentChildIndex = 0,
                          ![ns0.index + 1].parent = parentIndex,
                          ![ns0.index + 1].parentChildIndex = 1],
            InteriorCodeNode(ns1.index, ns0.index, ns0.frequency + ns1.frequency))

\* The code creation tree after merging ns0 and ns1 under a new parent
Merged(nodes, ns0, ns1) ==
  LET parentIndex == Len(nodes)
  IN Append([nodes EXCEPT ![ns0.index + 1].parent = parentIndex,
                          ![ns0.index + 1].parentChildIndex = 0,
                          ![ns1.index + 1].parent = parentIndex,
                          ![ns1.index + 1].parentChildIndex = 1],
            InteriorCodeNode(ns0.index, ns1.index, ns0.frequency + ns1.frequency))

\* buildTree, one pass of its loop
BuildTreeMerge ==
  /\ builderPc = "build"
  /\ Cardinality(nodeSorter) >= 2
  /\ \E ns1 \in Smallest(nodeSorter) :
       \E ns0 \in Smallest(nodeSorter \ {ns1}) :
         /\ codeNodes' = Merged(codeNodes, ns0, ns1)
         /\ nodeSorter' = (nodeSorter \ {ns0, ns1}) \cup
                            {[index |-> Len(codeNodes),
                              frequency |-> ns0.frequency + ns1.frequency]}
  /\ UNCHANGED <<numLeaves, builderPc, codebook, decodingTree>>

\* buildTree, leaving its loop
BuildTreeEnd ==
  /\ builderPc = "build"
  /\ Cardinality(nodeSorter) < 2
  /\ builderPc' = "built"
  /\ UNCHANGED <<codeNodes, numLeaves, nodeSorter, codebook, decodingTree>>

\* buildEncodingCodebook and buildDecodingTree on the built tree
BuildTables ==
  /\ builderPc = "built"
  /\ codebook' = BuildEncodingCodebook(codeNodes, numLeaves)
  /\ decodingTree' = BuildDecodingTree(codeNodes, numLeaves)
  /\ builderPc' = "tables"
  /\ UNCHANGED <<codeNodes, numLeaves, nodeSorter>>

-----------------------------------------------------------------------------
(* HuffmanEncoder.h, HuffmanDecoder.h                                       *)

\* HuffmanEncoder::writeBits
WriteBits(s, bits, numBits, wide) == SinkWrite(s, bits, numBits, wide)

\* HuffmanEncoder::encode, for a codebook whose element value+1 codes value
Encode(s, book, value, wide) ==
  SinkWrite(s, book[value + 1].bits, book[value + 1].numBits, wide)

\* HuffmanDecoder::readBits
ReadBits(r, numBits, wide) == SourceRead(r, numBits, wide)

\* HuffmanDecoder::decode, from node nodeIndex of a tree whose element i+1 is
\* node i: one pass of the do loop, and the rest of the loop
RECURSIVE DecodeFrom(_, _, _, _)
DecodeFrom(r, tree, nodeIndex, wide) ==
  LET bit == SourceReadBit(r, wide)
      next == tree[nodeIndex + 1].childIndices[bit[1][maxNumBits] + 1]
  IN IF tree[next + 1].code = Interior
     THEN DecodeFrom(bit[2], tree, next, wide)
     ELSE <<tree[next + 1].code, bit[2]>>

Decode(r, tree, wide) == DecodeFrom(r, tree, 0, wide)

-----------------------------------------------------------------------------
(* Pixel.h, IntraFrameCompressor.h, IntraFrameCompressor.cpp                *)

numPixelBits == 16

\* The number of Pixel values: Pixel arithmetic wraps at 65536
PixelRange == 65536

codeMax == 256

outOfRange == 2 * codeMax + 1

maxZeroRunLength == 512

\* intraFrameCompressorCodebook[]: <<bits, numBits>> of the codes of symbols 0..513
intraFrameCompressorCodebookData ==
  <<
   <<\h1230b2a, 25>>, <<\h1232587, 25>>, <<\h12162df, 25>>, <<\h246a1ba, 26>>, <<\h12320c7, 25>>, <<\h24641a8, 26>>, <<\h12325be, 25>>, <<\h91a86ec, 28>>,
   <<\h12325de0, 29>>, <<\h1216da09, 29>>, <<\h1216002f, 29>>, <<\h1216d92, 25>>, <<\h1235de6, 25>>, <<\h12325bf, 25>>, <<\h485b6820, 31>>, <<\h246a123, 26>>,
   <<\h247ade8, 26>>, <<\h246bbc2, 26>>, <<\h91a86ed, 28>>, <<\h90b0016, 28>>, <<\h91ad18, 24>>, <<\h1216fb3, 25>>, <<\h246b432, 26>>, <<\h12162dc, 25>>,
   <<\h919061, 24>>, <<\h2461549, 26>>, <<\h91aef2, 24>>, <<\h1235387, 25>>, <<\h1230aa6, 25>>, <<\h1216f15, 25>>, <<\h24641a9, 26>>, <<\h48c900f, 27>>,
   <<\h246b846, 26>>, <<\h242daf4, 26>>, <<\h242de29, 26>>, <<\h1216d93, 25>>, <<\h1232409, 25>>, <<\h1235090, 25>>, <<\h1232a5a, 25>>, <<\h1232a5b, 25>>,
   <<\h242de28, 26>>, <<\h918555, 24>>, <<\h91920d, 24>>, <<\h1216d6d, 25>>, <<\h90b16c, 24>>, <<\h1216074, 25>>, <<\h1230aa5, 25>>, <<\h1235331, 25>>,
   <<\h1235a18, 25>>, <<\h91ad15, 24>>, <<\h91a9cc, 24>>, <<\h485b683, 27>>, <<\h91ae17, 24>>, <<\h242db5b, 26>>, <<\h1230b25, 25>>, <<\h12162c6, 25>>,
   <<\h246b464, 26>>, <<\h121606a, 25>>, <<\h123018b, 25>>, <<\h1232a66, 25>>, <<\h1216dac, 25>>, <<\h485b5b1, 27>>, <<\h91953b, 24>>, <<\h1235de0, 25>>,
   <<\h2461548, 26>>, <<\h1235de9, 25>>, <<\h90b799, 24>>, <<\h485b686, 27>>, <<\h1232402, 25>>, <<\h12350dc, 25>>, <<\h2461649, 26>>, <<\h90b6d1, 24>>,
   <<\h918593, 24>>, <<\h90b7d8, 24>>, <<\h242db40, 26>>, <<\h1216003, 25>>, <<\h1216000, 25>>, <<\h242c004, 26>>, <<\h1216075, 25>>, <<\h91eb7b, 24>>,
   <<\h91951f, 24>>, <<\h90b62e, 24>>, <<\h48f5bc, 23>>, <<\h48d77b, 23>>, <<\h90b6cd, 24>>, <<\h12162c7, 25>>, <<\h48d68f, 23>>, <<\h918594, 24>>,
   <<\h9192ff, 24>>, <<\h90b009, 24>>, <<\h918550, 24>>, <<\h48d762, 23>>, <<\h91aef1, 24>>, <<\h91eb76, 24>>, <<\h918554, 24>>, <<\h4858b0, 23>>,
   <<\h91a86f, 24>>, <<\h919068, 24>>, <<\h90b798, 24>>, <<\h48d68e, 23>>, <<\h9192fe, 24>>, <<\h485b5d, 23>>, <<\h48c2cb, 23>>, <<\h918551, 24>>,
   <<\h91a9c0, 24>>, <<\h91a999, 24>>, <<\h918082, 24>>, <<\h1216d7b, 25>>, <<\h9192de, 24>>, <<\h48d70a, 23>>, <<\h12162dd, 25>>, <<\h48f5bf, 23>>,
   <<\h919074, 24>>, <<\h48d425, 23>>, <<\h48d70c, 23>>, <<\h919532, 24>>, <<\h91a84c, 24>>, <<\h90b169, 24>>, <<\h90b16d, 24>>, <<\h48c80f, 23>>,
   <<\h919069, 24>>, <<\h48f5b3, 23>>, <<\h919015, 24>>, <<\h91952f, 24>>, <<\h48c976, 23>>, <<\h48c96b, 23>>, <<\h91951e, 24>>, <<\h48c2ab, 23>>,
   <<\h91eb77, 24>>, <<\h90b7db, 24>>, <<\h48d4e7, 23>>, <<\h48c901, 23>>, <<\h91ae10, 24>>, <<\h48ca8c, 23>>, <<\h48ca9a, 23>>, <<\h90b008, 24>>,
   <<\h90b62f, 24>>, <<\h919062, 24>>, <<\h48c836, 23>>, <<\h90b6b5, 24>>, <<\h48c2c8, 23>>, <<\h48c907, 23>>, <<\h919205, 24>>, <<\h48d68d, 23>>,
   <<\h90b629, 24>>, <<\h48c83b, 23>>, <<\h48c04e, 23>>, <<\h48ca8e, 23>>, <<\h485b69, 23>>, <<\h485b5f, 23>>, <<\h4858b3, 23>>, <<\h48ca9c, 23>>,
   <<\h90b037, 24>>, <<\h48f5be, 23>>, <<\h246a65, 22>>, <<\h246482, 22>>, <<\h48c97e, 23>>, <<\h2464b4, 22>>, <<\h247ad8, 22>>, <<\h48c833, 23>>,
   <<\h48c063, 23>>, <<\h485b6a, 23>>, <<\h48ca90, 23>>, <<\h246544, 22>>, <<\h24654a, 22>>, <<\h485bc4, 23>>, <<\h48c04d, 23>>, <<\h246a71, 22>>,
   <<\h485b16, 23>>, <<\h485bcd, 23>>, <<\h48c960, 23>>, <<\h485805, 23>>, <<\h242c0c, 22>>, <<\h246a64, 22>>, <<\h246549, 22>>, <<\h246a72, 22>>,
   <<\h242df0, 22>>, <<\h246030, 22>>, <<\h246b40, 22>>, <<\h242de3, 22>>, <<\h246b87, 22>>, <<\h1235d9, 21>>, <<\h123259, 21>>, <<\h247adc, 22>>,
   <<\h242c03, 22>>, <<\h2464ba, 22>>, <<\h242de1, 22>>, <<\h242dac, 22>>, <<\h12350c, 21>>, <<\h121623, 21>>, <<\h242c0f, 22>>, <<\h123201, 21>>,
   <<\h12320f, 21>>, <<\h123019, 21>>, <<\h91a9d, 20>>, <<\h12325c, 21>>, <<\h1216d8, 21>>, <<\h12301d, 21>>, <<\h1216f2, 21>>, <<\h123011, 21>>,
   <<\h1216c4, 21>>, <<\h91ae2, 20>>, <<\h91a9e, 20>>, <<\h91aee, 20>>, <<\h91ae3, 20>>, <<\h91a87, 20>>, <<\h91921, 20>>, <<\h91a98, 20>>,
   <<\h9180f, 20>>, <<\h9180d, 20>>, <<\h48d75, 19>>, <<\h90b6a, 20>>, <<\h48d74, 19>>, <<\h90b01, 20>>, <<\h90b02, 20>>, <<\h48c91, 19>>,
   <<\h48c82, 19>>, <<\h485bf, 19>>, <<\h48c2b, 19>>, <<\h485bd, 19>>, <<\h48589, 19>>, <<\h247ac, 18>>, <<\h4858a, 19>>, <<\h246b9, 18>>,
   <<\h246a3, 18>>, <<\h246a0, 18>>, <<\h24649, 18>>, <<\h2464a, 18>>, <<\h24614, 18>>, <<\h242c7, 18>>, <<\h1235b, 17>>, <<\h12352, 17>>,
   <<\h1232b, 17>>, <<\h12327, 17>>, <<\h12300, 17>>, <<\h12161, 17>>, <<\h91ea, 16>>, <<\h91ac, 16>>, <<\h9194, 16>>, <<\h9181, 16>>,
   <<\h90b2, 16>>, <<\h48f4, 15>>, <<\h48cb, 15>>, <<\h48c1, 15>>, <<\h485a, 15>>, <<\h2466, 14>>, <<\h242e, 14>>, <<\h1234, 13>>,
   <<\h91f, 12>>, <<\h90a, 12>>, <<\h484, 11>>, <<\h122, 9>>, <<\h49, 7>>, <<\h13, 5>>, <<\h5, 3>>, <<\h1, 2>>,
   <<\h0, 2>>, <<\h3, 2>>, <<\h8, 4>>, <<\h25, 6>>, <<\h120, 9>>, <<\h243, 10>>, <<\h48e, 11>>, <<\h91b, 12>>,
   <<\h1231, 13>>, <<\h123c, 13>>, <<\h242f, 14>>, <<\h2467, 14>>, <<\h247b, 14>>, <<\h48c3, 15>>, <<\h48d5, 15>>, <<\h90b3, 16>>,
   <<\h9184, 16>>, <<\h9191, 16>>, <<\h91af, 16>>, <<\h1216e, 17>>, <<\h12321, 17>>, <<\h12326, 17>>, <<\h242c1, 18>>, <<\h123d7, 17>>,
   <<\h242d9, 18>>, <<\h24617, 18>>, <<\h246a2, 18>>, <<\h24655, 18>>, <<\h246b5, 18>>, <<\h4858c, 19>>, <<\h4858d, 19>>, <<\h485b7, 19>>,
   <<\h48c81, 19>>, <<\h485b4, 19>>, <<\h48c05, 19>>, <<\h48c2d, 19>>, <<\h48d4d, 19>>, <<\h48d69, 19>>, <<\h90b10, 20>>, <<\h90b63, 20>>,
   <<\h90b17, 20>>, <<\h91854, 20>>, <<\h91858, 20>>, <<\h91a9f, 20>>, <<\h91a85, 20>>, <<\h91ae0, 20>>, <<\h91eb5, 20>>, <<\h1216db, 21>>,
   <<\h91eb4, 20>>, <<\h1216fa, 21>>, <<\h1230ab, 21>>, <<\h123d6d, 21>>, <<\h123200, 21>>, <<\h123012, 21>>, <<\h121622, 21>>, <<\h242c01, 22>>,
   <<\h1230b3, 21>>, <<\h1235df, 21>>, <<\h123508, 21>>, <<\h242df7, 22>>, <<\h2464b1, 22>>, <<\h1235da, 21>>, <<\h242de0, 22>>, <<\h12325e, 21>>,
   <<\h1232a0, 21>>, <<\h1235db, 21>>, <<\h48581c, 23>>, <<\h246bb0, 22>>, <<\h242df2, 22>>, <<\h246a67, 22>>, <<\h1232a1, 21>>, <<\h242df1, 22>>,
   <<\h4858b5, 23>>, <<\h246406, 22>>, <<\h246038, 22>>, <<\h4858b2, 23>>, <<\h246039, 22>>, <<\h242df3, 22>>, <<\h485b15, 23>>, <<\h246404, 22>>,
   <<\h24641c, 22>>, <<\h24654f, 22>>, <<\h485b67, 23>>, <<\h48c832, 23>>, <<\h2464be, 22>>, <<\h485801, 23>>, <<\h485b5c, 23>>, <<\h48d687, 23>>,
   <<\h48c04f, 23>>, <<\h485b65, 23>>, <<\h48d682, 23>>, <<\h48ca9b, 23>>, <<\h90b162, 24>>, <<\h48ca98, 23>>, <<\h90b6c8, 24>>, <<\h90b6bc, 24>>,
   <<\h48c80b, 23>>, <<\h246b44, 22>>, <<\h48c903, 23>>, <<\h48d68b, 23>>, <<\h9192c2, 24>>, <<\h485bce, 23>>, <<\h91ae16, 24>>, <<\h91951b, 24>>,
   <<\h48c040, 23>>, <<\h91a9cd, 24>>, <<\h9192ee, 24>>, <<\h90b6d7, 24>>, <<\h48c043, 23>>, <<\h48d685, 23>>, <<\h9192da, 24>>, <<\h9192db, 24>>,
   <<\h9180c4, 24>>, <<\h91ae1b, 24>>, <<\h90b034, 24>>, <<\h90b78b, 24>>, <<\h91aef5, 24>>, <<\h90b6b7, 24>>, <<\h9192d9, 24>>, <<\h919200, 24>>,
   <<\h1216fb2, 25>>, <<\h91a99b, 24>>, <<\h48ca91, 23>>, <<\h48c80e, 23>>, <<\h90b036, 24>>, <<\h48f5ba, 23>>, <<\h12320c6, 25>>, <<\h1230131, 25>>,
   <<\h1216d99, 25>>, <<\h123018a, 25>>, <<\h91a9c2, 24>>, <<\h123d6c8, 25>>, <<\h9192d4, 24>>, <<\h48d434, 23>>, <<\h123d6c9, 25>>, <<\h919517, 24>>,
   <<\h90b168, 24>>, <<\h91920c, 24>>, <<\h90b628, 24>>, <<\h48c837, 23>>, <<\h91a86a, 24>>, <<\h48d683, 23>>, <<\h91a99a, 24>>, <<\h91952e, 24>>,
   <<\h90b6b4, 24>>, <<\h48d684, 23>>, <<\h91a9c1, 24>>, <<\h242db42, 26>>, <<\h1232a75, 25>>, <<\h485800a, 27>>, <<\h242c5bd, 26>>, <<\h1216d98, 25>>,
   <<\h48d709, 23>>, <<\h90b79f, 24>>, <<\h1216f3c, 25>>, <<\h123d6cb, 25>>, <<\h90b7da, 24>>, <<\h919060, 24>>, <<\h12325b1, 25>>, <<\h485b687, 27>>,
   <<\h1232a59, 25>>, <<\h1232a2c, 25>>, <<\h246bbd0, 26>>, <<\h123509b, 25>>, <<\h91a84e, 24>>, <<\h48c96e, 23>>, <<\h1216001, 25>>, <<\h4858b78, 27>>,
   <<\h1235330, 25>>, <<\h2461656, 26>>, <<\h242dad9, 26>>, <<\h918083, 24>>, <<\h91a84f, 24>>, <<\h919075, 24>>, <<\h123010a, 25>>, <<\h48d763, 23>>,
   <<\h91a86c, 24>>, <<\h1232a74, 25>>, <<\h91a849, 24>>, <<\h1230109, 25>>, <<\h247ad95, 26>>, <<\h12325b0, 25>>, <<\h1235c34, 25>>, <<\h90b03b, 24>>,
   <<\h12325df, 25>>, <<\h247ade9, 26>>, <<\h246a70d, 26>>, <<\h1230130, 25>>, <<\h1232a58, 25>>, <<\h919515, 24>>, <<\h2464806, 26>>, <<\h485b5b0, 27>>,
   <<\h246a70c, 26>>, <<\h2464b0d, 26>>, <<\h91ad14, 24>>, <<\h123509a, 25>>, <<\h919014, 24>>, <<\h247ad94, 26>>, <<\h91a86d, 24>>, <<\h12325ab, 25>>,
   <<\h12350d6, 25>>, <<\h1232a67, 25>>, <<\h242de7a, 26>>, <<\h48d7787, 27>>, <<\h1232408, 25>>, <<\h90b79ec, 28>>, <<\h246b465, 26>>, <<\h123010b, 25>>,
   <<\h48c2c91, 27>>, <<\h1235a33, 25>>, <<\h2464bbd, 26>>, <<\h1235de7, 25>>, <<\h1232a35, 25>>, <<\h1232a34, 25>>, <<\h48c2cae, 27>>, <<\h123d6f5, 25>>,
   <<\h1230132, 25>>, <<\h2460266, 26>>, <<\h2460267, 26>>, <<\h121606b, 25>>, <<\h48c900e, 27>>, <<\h12325aa, 25>>, <<\h1232a29, 25>>, <<\h246b845, 26>>,
   <<\h48d7786, 27>>, <<\h2464b0c, 26>>, <<\h246a1af, 26>>, <<\h48c9779, 27>>, <<\h48c2caf, 27>>, <<\h246b844, 26>>, <<\h91906b, 24>>, <<\h246a122, 26>>,
   <<\h90b6d05, 28>>, <<\h1235c35, 25>>, <<\h48c2c90, 27>>, <<\h1230108, 25>>, <<\h12320d5, 25>>, <<\h485bcf7, 27>>, <<\h48d6866, 27>>, <<\h1230aa7, 25>>,
   <<\h48d4377, 27>>, <<\h91ad0d, 24>>, <<\h246b847, 26>>, <<\h12325de1, 29>>, <<\h4858b79, 27>>, <<\h48d6867, 27>>, <<\h246bbd1, 26>>, <<\h242db411, 30>>,
   <<\h90b79ed, 28>>, <<\h242db5a, 26>>, <<\h1216002e, 29>>, <<\h246a1ae, 26>>, <<\h485b6821, 31>>, <<\h1232a2d, 25>>, <<\h242daf5, 26>>, <<\h1232a28, 25>>,
   <<\h9192ef1, 28>>, <<\h485b0, 19>>
  >>

\* intraFrameDecompressorTree[]: <<code, childIndices[0], childIndices[1]>> of nodes
\* 0..1026, the code ~0U of an interior node written as Interior
intraFrameDecompressorTreeData ==
  <<
   <<Interior, 1, 4>>, <<Interior, 2, 3>>, <<256, 0, 0>>, <<255, 0, 0>>, <<Interior, 5, 1026>>, <<Interior, 6, 1025>>, <<Interior, 7, 8>>, <<258, 0, 0>>,
   <<Interior, 9, 1024>>, <<Interior, 10, 1023>>, <<Interior, 11, 1022>>, <<Interior, 12, 315>>, <<Interior, 13, 14>>, <<260, 0, 0>>, <<Interior, 15, 314>>, <<Interior, 16, 17>>,
   <<250, 0, 0>>, <<Interior, 18, 19>>, <<249, 0, 0>>, <<Interior, 20, 311>>, <<Interior, 21, 134>>, <<Interior, 22, 131>>, <<Interior, 23, 80>>, <<Interior, 24, 79>>,
   <<Interior, 25, 78>>, <<Interior, 26, 55>>, <<Interior, 27, 54>>, <<Interior, 28, 47>>, <<Interior, 29, 46>>, <<Interior, 30, 45>>, <<Interior, 31, 34>>, <<Interior, 32, 33>>,
   <<76, 0, 0>>, <<422, 0, 0>>, <<Interior, 35, 44>>, <<Interior, 36, 37>>, <<77, 0, 0>>, <<Interior, 38, 39>>, <<405, 0, 0>>, <<Interior, 40, 41>>,
   <<19, 0, 0>>, <<Interior, 42, 43>>, <<506, 0, 0>>, <<10, 0, 0>>, <<75, 0, 0>>, <<341, 0, 0>>, <<311, 0, 0>>, <<Interior, 48, 53>>,
   <<Interior, 49, 52>>, <<Interior, 50, 51>>, <<135, 0, 0>>, <<89, 0, 0>>, <<171, 0, 0>>, <<184, 0, 0>>, <<213, 0, 0>>, <<Interior, 56, 57>>,
   <<214, 0, 0>>, <<Interior, 58, 69>>, <<Interior, 59, 60>>, <<172, 0, 0>>, <<Interior, 61, 66>>, <<Interior, 62, 63>>, <<370, 0, 0>>, <<Interior, 64, 65>>,
   <<57, 0, 0>>, <<475, 0, 0>>, <<Interior, 67, 68>>, <<380, 0, 0>>, <<152, 0, 0>>, <<Interior, 70, 77>>, <<Interior, 71, 72>>, <<322, 0, 0>>,
   <<Interior, 73, 76>>, <<Interior, 74, 75>>, <<45, 0, 0>>, <<78, 0, 0>>, <<439, 0, 0>>, <<190, 0, 0>>, <<278, 0, 0>>, <<235, 0, 0>>,
   <<Interior, 81, 126>>, <<Interior, 82, 89>>, <<Interior, 83, 88>>, <<Interior, 84, 85>>, <<294, 0, 0>>, <<Interior, 86, 87>>, <<310, 0, 0>>, <<189, 0, 0>>,
   <<220, 0, 0>>, <<Interior, 90, 91>>, <<222, 0, 0>>, <<Interior, 92, 125>>, <<Interior, 93, 104>>, <<Interior, 94, 101>>, <<Interior, 95, 96>>, <<95, 0, 0>>,
   <<Interior, 97, 98>>, <<348, 0, 0>>, <<Interior, 99, 100>>, <<55, 0, 0>>, <<85, 0, 0>>, <<Interior, 102, 103>>, <<331, 0, 0>>, <<150, 0, 0>>,
   <<Interior, 105, 110>>, <<Interior, 106, 109>>, <<Interior, 107, 108>>, <<392, 0, 0>>, <<117, 0, 0>>, <<328, 0, 0>>, <<Interior, 111, 114>>, <<Interior, 112, 113>>,
   <<44, 0, 0>>, <<118, 0, 0>>, <<Interior, 115, 118>>, <<Interior, 116, 117>>, <<23, 0, 0>>, <<110, 0, 0>>, <<Interior, 119, 124>>, <<Interior, 120, 123>>,
   <<Interior, 121, 122>>, <<423, 0, 0>>, <<500, 0, 0>>, <<406, 0, 0>>, <<2, 0, 0>>, <<296, 0, 0>>, <<Interior, 127, 130>>, <<Interior, 128, 129>>,
   <<285, 0, 0>>, <<286, 0, 0>>, <<229, 0, 0>>, <<Interior, 132, 133>>, <<240, 0, 0>>, <<271, 0, 0>>, <<Interior, 135, 136>>, <<244, 0, 0>>,
   <<Interior, 137, 246>>, <<Interior, 138, 157>>, <<Interior, 139, 156>>, <<Interior, 140, 141>>, <<513, 0, 0>>, <<Interior, 142, 155>>, <<Interior, 143, 144>>, <<200, 0, 0>>,
   <<Interior, 145, 150>>, <<Interior, 146, 149>>, <<Interior, 147, 148>>, <<394, 0, 0>>, <<144, 0, 0>>, <<334, 0, 0>>, <<Interior, 151, 152>>, <<168, 0, 0>>,
   <<Interior, 153, 154>>, <<81, 0, 0>>, <<136, 0, 0>>, <<295, 0, 0>>, <<280, 0, 0>>, <<Interior, 158, 191>>, <<Interior, 159, 160>>, <<289, 0, 0>>,
   <<Interior, 161, 162>>, <<211, 0, 0>>, <<Interior, 163, 178>>, <<Interior, 164, 165>>, <<187, 0, 0>>, <<Interior, 166, 169>>, <<Interior, 167, 168>>, <<400, 0, 0>>,
   <<139, 0, 0>>, <<Interior, 170, 177>>, <<Interior, 171, 176>>, <<Interior, 172, 175>>, <<Interior, 173, 174>>, <<447, 0, 0>>, <<61, 0, 0>>, <<426, 0, 0>>,
   <<43, 0, 0>>, <<373, 0, 0>>, <<Interior, 179, 182>>, <<Interior, 180, 181>>, <<342, 0, 0>>, <<101, 0, 0>>, <<Interior, 183, 190>>, <<Interior, 184, 185>>,
   <<351, 0, 0>>, <<Interior, 186, 189>>, <<Interior, 187, 188>>, <<33, 0, 0>>, <<510, 0, 0>>, <<107, 0, 0>>, <<149, 0, 0>>, <<Interior, 192, 245>>,
   <<Interior, 193, 210>>, <<Interior, 194, 195>>, <<196, 0, 0>>, <<Interior, 196, 203>>, <<Interior, 197, 202>>, <<Interior, 198, 199>>, <<350, 0, 0>>, <<Interior, 200, 201>>,
   <<11, 0, 0>>, <<35, 0, 0>>, <<345, 0, 0>>, <<Interior, 204, 209>>, <<Interior, 205, 208>>, <<Interior, 206, 207>>, <<407, 0, 0>>, <<384, 0, 0>>,
   <<84, 0, 0>>, <<338, 0, 0>>, <<Interior, 211, 244>>, <<Interior, 212, 235>>, <<Interior, 213, 234>>, <<Interior, 214, 233>>, <<Interior, 215, 228>>, <<Interior, 216, 217>>,
   <<74, 0, 0>>, <<Interior, 218, 227>>, <<Interior, 219, 226>>, <<Interior, 220, 225>>, <<Interior, 221, 224>>, <<Interior, 222, 223>>, <<14, 0, 0>>, <<508, 0, 0>>,
   <<503, 0, 0>>, <<9, 0, 0>>, <<488, 0, 0>>, <<51, 0, 0>>, <<Interior, 229, 230>>, <<403, 0, 0>>, <<Interior, 231, 232>>, <<67, 0, 0>>,
   <<415, 0, 0>>, <<71, 0, 0>>, <<148, 0, 0>>, <<Interior, 236, 237>>, <<161, 0, 0>>, <<Interior, 238, 243>>, <<Interior, 239, 240>>, <<60, 0, 0>>,
   <<Interior, 241, 242>>, <<505, 0, 0>>, <<53, 0, 0>>, <<363, 0, 0>>, <<303, 0, 0>>, <<287, 0, 0>>, <<Interior, 247, 248>>, <<275, 0, 0>>,
   <<Interior, 249, 288>>, <<Interior, 250, 287>>, <<Interior, 251, 266>>, <<Interior, 252, 255>>, <<Interior, 253, 254>>, <<318, 0, 0>>, <<186, 0, 0>>, <<Interior, 256, 265>>,
   <<Interior, 257, 258>>, <<165, 0, 0>>, <<Interior, 259, 264>>, <<Interior, 260, 263>>, <<Interior, 261, 262>>, <<40, 0, 0>>, <<34, 0, 0>>, <<29, 0, 0>>,
   <<371, 0, 0>>, <<179, 0, 0>>, <<Interior, 267, 268>>, <<198, 0, 0>>, <<Interior, 269, 274>>, <<Interior, 270, 273>>, <<Interior, 271, 272>>, <<98, 0, 0>>,
   <<66, 0, 0>>, <<169, 0, 0>>, <<Interior, 275, 276>>, <<357, 0, 0>>, <<Interior, 277, 286>>, <<Interior, 278, 279>>, <<410, 0, 0>>, <<Interior, 280, 281>>,
   <<458, 0, 0>>, <<Interior, 282, 285>>, <<Interior, 283, 284>>, <<461, 0, 0>>, <<504, 0, 0>>, <<493, 0, 0>>, <<409, 0, 0>>, <<219, 0, 0>>,
   <<Interior, 289, 310>>, <<Interior, 290, 297>>, <<Interior, 291, 294>>, <<Interior, 292, 293>>, <<176, 0, 0>>, <<327, 0, 0>>, <<Interior, 295, 296>>, <<324, 0, 0>>,
   <<333, 0, 0>>, <<Interior, 298, 299>>, <<305, 0, 0>>, <<Interior, 300, 309>>, <<Interior, 301, 306>>, <<Interior, 302, 303>>, <<73, 0, 0>>, <<Interior, 304, 305>>,
   <<376, 0, 0>>, <<21, 0, 0>>, <<Interior, 307, 308>>, <<412, 0, 0>>, <<129, 0, 0>>, <<315, 0, 0>>, <<217, 0, 0>>, <<Interior, 312, 313>>,
   <<246, 0, 0>>, <<266, 0, 0>>, <<261, 0, 0>>, <<Interior, 316, 317>>, <<251, 0, 0>>, <<Interior, 318, 965>>, <<Interior, 319, 714>>, <<Interior, 320, 451>>,
   <<Interior, 321, 450>>, <<Interior, 322, 387>>, <<Interior, 323, 386>>, <<Interior, 324, 385>>, <<Interior, 325, 326>>, <<234, 0, 0>>, <<Interior, 327, 364>>, <<Interior, 328, 363>>,
   <<Interior, 329, 346>>, <<Interior, 330, 345>>, <<Interior, 331, 336>>, <<Interior, 332, 333>>, <<360, 0, 0>>, <<Interior, 334, 335>>, <<106, 0, 0>>, <<427, 0, 0>>,
   <<Interior, 337, 344>>, <<Interior, 338, 341>>, <<Interior, 339, 340>>, <<491, 0, 0>>, <<435, 0, 0>>, <<Interior, 342, 343>>, <<430, 0, 0>>, <<463, 0, 0>>,
   <<364, 0, 0>>, <<199, 0, 0>>, <<Interior, 347, 348>>, <<309, 0, 0>>, <<Interior, 349, 360>>, <<Interior, 350, 359>>, <<Interior, 351, 354>>, <<Interior, 352, 353>>,
   <<443, 0, 0>>, <<383, 0, 0>>, <<Interior, 355, 356>>, <<472, 0, 0>>, <<Interior, 357, 358>>, <<473, 0, 0>>, <<474, 0, 0>>, <<166, 0, 0>>,
   <<Interior, 361, 362>>, <<146, 0, 0>>, <<344, 0, 0>>, <<290, 0, 0>>, <<Interior, 365, 378>>, <<Interior, 366, 377>>, <<Interior, 367, 376>>, <<Interior, 368, 369>>,
   <<177, 0, 0>>, <<Interior, 370, 375>>, <<Interior, 371, 372>>, <<368, 0, 0>>, <<Interior, 373, 374>>, <<385, 0, 0>>, <<58, 0, 0>>, <<160, 0, 0>>,
   <<193, 0, 0>>, <<209, 0, 0>>, <<Interior, 379, 384>>, <<Interior, 380, 383>>, <<Interior, 381, 382>>, <<330, 0, 0>>, <<332, 0, 0>>, <<197, 0, 0>>,
   <<208, 0, 0>>, <<239, 0, 0>>, <<243, 0, 0>>, <<Interior, 388, 449>>, <<Interior, 389, 390>>, <<272, 0, 0>>, <<Interior, 391, 418>>, <<Interior, 392, 393>>,
   <<228, 0, 0>>, <<Interior, 394, 417>>, <<Interior, 395, 396>>, <<297, 0, 0>>, <<Interior, 397, 416>>, <<Interior, 398, 411>>, <<Interior, 399, 402>>, <<Interior, 400, 401>>,
   <<90, 0, 0>>, <<103, 0, 0>>, <<Interior, 403, 408>>, <<Interior, 404, 407>>, <<Interior, 405, 406>>, <<64, 0, 0>>, <<25, 0, 0>>, <<46, 0, 0>>,
   <<Interior, 409, 410>>, <<28, 0, 0>>, <<495, 0, 0>>, <<Interior, 412, 415>>, <<Interior, 413, 414>>, <<94, 0, 0>>, <<41, 0, 0>>, <<127, 0, 0>>,
   <<306, 0, 0>>, <<218, 0, 0>>, <<Interior, 419, 448>>, <<Interior, 420, 447>>, <<Interior, 421, 422>>, <<298, 0, 0>>, <<Interior, 423, 446>>, <<Interior, 424, 435>>,
   <<Interior, 425, 426>>, <<140, 0, 0>>, <<Interior, 427, 434>>, <<Interior, 428, 433>>, <<Interior, 429, 432>>, <<Interior, 430, 431>>, <<490, 0, 0>>, <<464, 0, 0>>,
   <<70, 0, 0>>, <<54, 0, 0>>, <<72, 0, 0>>, <<Interior, 436, 445>>, <<Interior, 437, 438>>, <<87, 0, 0>>, <<Interior, 439, 440>>, <<0, 0, 0>>,
   <<Interior, 441, 442>>, <<425, 0, 0>>, <<Interior, 443, 444>>, <<470, 0, 0>>, <<484, 0, 0>>, <<102, 0, 0>>, <<312, 0, 0>>, <<291, 0, 0>>,
   <<281, 0, 0>>, <<269, 0, 0>>, <<264, 0, 0>>, <<Interior, 452, 711>>, <<Interior, 453, 630>>, <<Interior, 454, 519>>, <<Interior, 455, 518>>, <<Interior, 456, 517>>,
   <<Interior, 457, 476>>, <<Interior, 458, 475>>, <<Interior, 459, 462>>, <<Interior, 460, 461>>, <<308, 0, 0>>, <<191, 0, 0>>, <<Interior, 463, 470>>, <<Interior, 464, 465>>,
   <<335, 0, 0>>, <<Interior, 466, 469>>, <<Interior, 467, 468>>, <<452, 0, 0>>, <<122, 0, 0>>, <<352, 0, 0>>, <<Interior, 471, 472>>, <<329, 0, 0>>,
   <<Interior, 473, 474>>, <<379, 0, 0>>, <<119, 0, 0>>, <<288, 0, 0>>, <<Interior, 477, 478>>, <<216, 0, 0>>, <<Interior, 479, 508>>, <<Interior, 480, 493>>,
   <<Interior, 481, 490>>, <<Interior, 482, 485>>, <<Interior, 483, 484>>, <<413, 0, 0>>, <<24, 0, 0>>, <<Interior, 486, 487>>, <<137, 0, 0>>, <<Interior, 488, 489>>,
   <<382, 0, 0>>, <<4, 0, 0>>, <<Interior, 491, 492>>, <<339, 0, 0>>, <<159, 0, 0>>, <<Interior, 494, 505>>, <<Interior, 495, 498>>, <<Interior, 496, 497>>,
   <<97, 0, 0>>, <<120, 0, 0>>, <<Interior, 499, 504>>, <<Interior, 500, 503>>, <<Interior, 501, 502>>, <<5, 0, 0>>, <<30, 0, 0>>, <<492, 0, 0>>,
   <<486, 0, 0>>, <<Interior, 506, 507>>, <<138, 0, 0>>, <<395, 0, 0>>, <<Interior, 509, 516>>, <<Interior, 510, 511>>, <<336, 0, 0>>, <<Interior, 512, 515>>,
   <<Interior, 513, 514>>, <<112, 0, 0>>, <<429, 0, 0>>, <<145, 0, 0>>, <<192, 0, 0>>, <<276, 0, 0>>, <<273, 0, 0>>, <<Interior, 520, 627>>,
   <<Interior, 521, 554>>, <<Interior, 522, 553>>, <<Interior, 523, 552>>, <<Interior, 524, 551>>, <<Interior, 525, 544>>, <<Interior, 526, 537>>, <<Interior, 527, 536>>, <<Interior, 528, 529>>,
   <<375, 0, 0>>, <<Interior, 530, 531>>, <<68, 0, 0>>, <<Interior, 532, 533>>, <<446, 0, 0>>, <<Interior, 534, 535>>, <<476, 0, 0>>, <<31, 0, 0>>,
   <<131, 0, 0>>, <<Interior, 538, 543>>, <<Interior, 539, 542>>, <<Interior, 540, 541>>, <<460, 0, 0>>, <<36, 0, 0>>, <<142, 0, 0>>, <<354, 0, 0>>,
   <<Interior, 545, 546>>, <<155, 0, 0>>, <<Interior, 547, 550>>, <<Interior, 548, 549>>, <<393, 0, 0>>, <<42, 0, 0>>, <<141, 0, 0>>, <<206, 0, 0>>,
   <<215, 0, 0>>, <<226, 0, 0>>, <<Interior, 555, 556>>, <<227, 0, 0>>, <<Interior, 557, 598>>, <<Interior, 558, 571>>, <<Interior, 559, 570>>, <<Interior, 560, 569>>,
   <<Interior, 561, 562>>, <<170, 0, 0>>, <<Interior, 563, 564>>, <<356, 0, 0>>, <<Interior, 565, 568>>, <<Interior, 566, 567>>, <<481, 0, 0>>, <<449, 0, 0>>,
   <<1, 0, 0>>, <<316, 0, 0>>, <<182, 0, 0>>, <<Interior, 572, 581>>, <<Interior, 573, 574>>, <<157, 0, 0>>, <<Interior, 575, 580>>, <<Interior, 576, 577>>,
   <<388, 0, 0>>, <<Interior, 578, 579>>, <<477, 0, 0>>, <<455, 0, 0>>, <<125, 0, 0>>, <<Interior, 582, 591>>, <<Interior, 583, 588>>, <<Interior, 584, 587>>,
   <<Interior, 585, 586>>, <<437, 0, 0>>, <<414, 0, 0>>, <<374, 0, 0>>, <<Interior, 589, 590>>, <<366, 0, 0>>, <<367, 0, 0>>, <<Interior, 592, 593>>,
   <<421, 0, 0>>, <<Interior, 594, 595>>, <<108, 0, 0>>, <<Interior, 596, 597>>, <<6, 0, 0>>, <<13, 0, 0>>, <<Interior, 599, 618>>, <<Interior, 600, 601>>,
   <<195, 0, 0>>, <<Interior, 602, 603>>, <<185, 0, 0>>, <<Interior, 604, 605>>, <<124, 0, 0>>, <<Interior, 606, 607>>, <<362, 0, 0>>, <<Interior, 608, 617>>,
   <<Interior, 609, 616>>, <<Interior, 610, 615>>, <<Interior, 611, 614>>, <<Interior, 612, 613>>, <<8, 0, 0>>, <<499, 0, 0>>, <<512, 0, 0>>, <<483, 0, 0>>,
   <<466, 0, 0>>, <<440, 0, 0>>, <<Interior, 619, 620>>, <<319, 0, 0>>, <<Interior, 621, 622>>, <<340, 0, 0>>, <<Interior, 623, 624>>, <<156, 0, 0>>,
   <<Interior, 625, 626>>, <<100, 0, 0>>, <<88, 0, 0>>, <<Interior, 628, 629>>, <<277, 0, 0>>, <<233, 0, 0>>, <<Interior, 631, 710>>, <<Interior, 632, 633>>,
   <<238, 0, 0>>, <<Interior, 634, 709>>, <<Interior, 635, 708>>, <<Interior, 636, 667>>, <<Interior, 637, 640>>, <<Interior, 638, 639>>, <<320, 0, 0>>, <<326, 0, 0>>,
   <<Interior, 641, 654>>, <<Interior, 642, 643>>, <<163, 0, 0>>, <<Interior, 644, 649>>, <<Interior, 645, 648>>, <<Interior, 646, 647>>, <<511, 0, 0>>, <<478, 0, 0>>,
   <<445, 0, 0>>, <<Interior, 650, 653>>, <<Interior, 651, 652>>, <<417, 0, 0>>, <<509, 0, 0>>, <<391, 0, 0>>, <<Interior, 655, 662>>, <<Interior, 656, 657>>,
   <<133, 0, 0>>, <<Interior, 658, 661>>, <<Interior, 659, 660>>, <<469, 0, 0>>, <<468, 0, 0>>, <<359, 0, 0>>, <<Interior, 663, 664>>, <<147, 0, 0>>,
   <<Interior, 665, 666>>, <<126, 0, 0>>, <<80, 0, 0>>, <<Interior, 668, 687>>, <<Interior, 669, 674>>, <<Interior, 670, 673>>, <<Interior, 671, 672>>, <<162, 0, 0>>,
   <<378, 0, 0>>, <<174, 0, 0>>, <<Interior, 675, 676>>, <<164, 0, 0>>, <<Interior, 677, 684>>, <<Interior, 678, 681>>, <<Interior, 679, 680>>, <<444, 0, 0>>,
   <<416, 0, 0>>, <<Interior, 682, 683>>, <<38, 0, 0>>, <<39, 0, 0>>, <<Interior, 685, 686>>, <<399, 0, 0>>, <<123, 0, 0>>, <<Interior, 688, 699>>,
   <<Interior, 689, 696>>, <<Interior, 690, 691>>, <<349, 0, 0>>, <<Interior, 692, 693>>, <<115, 0, 0>>, <<Interior, 694, 695>>, <<59, 0, 0>>, <<457, 0, 0>>,
   <<Interior, 697, 698>>, <<134, 0, 0>>, <<347, 0, 0>>, <<Interior, 700, 707>>, <<Interior, 701, 702>>, <<151, 0, 0>>, <<Interior, 703, 706>>, <<Interior, 704, 705>>,
   <<433, 0, 0>>, <<404, 0, 0>>, <<62, 0, 0>>, <<337, 0, 0>>, <<283, 0, 0>>, <<232, 0, 0>>, <<242, 0, 0>>, <<Interior, 712, 713>>,
   <<245, 0, 0>>, <<267, 0, 0>>, <<Interior, 715, 964>>, <<Interior, 716, 717>>, <<247, 0, 0>>, <<Interior, 718, 829>>, <<Interior, 719, 828>>, <<Interior, 720, 779>>,
   <<Interior, 721, 776>>, <<Interior, 722, 723>>, <<225, 0, 0>>, <<Interior, 724, 747>>, <<Interior, 725, 746>>, <<Interior, 726, 727>>, <<314, 0, 0>>, <<Interior, 728, 737>>,
   <<Interior, 729, 736>>, <<Interior, 730, 735>>, <<Interior, 731, 732>>, <<37, 0, 0>>, <<Interior, 733, 734>>, <<487, 0, 0>>, <<15, 0, 0>>, <<434, 0, 0>>,
   <<113, 0, 0>>, <<Interior, 738, 743>>, <<Interior, 739, 740>>, <<116, 0, 0>>, <<Interior, 741, 742>>, <<451, 0, 0>>, <<419, 0, 0>>, <<Interior, 744, 745>>,
   <<420, 0, 0>>, <<428, 0, 0>>, <<300, 0, 0>>, <<Interior, 748, 775>>, <<Interior, 749, 750>>, <<188, 0, 0>>, <<Interior, 751, 760>>, <<Interior, 752, 753>>,
   <<389, 0, 0>>, <<Interior, 754, 755>>, <<396, 0, 0>>, <<Interior, 756, 757>>, <<456, 0, 0>>, <<Interior, 758, 759>>, <<507, 0, 0>>, <<482, 0, 0>>,
   <<Interior, 761, 764>>, <<Interior, 762, 763>>, <<432, 0, 0>>, <<454, 0, 0>>, <<Interior, 765, 774>>, <<Interior, 766, 767>>, <<69, 0, 0>>, <<Interior, 768, 769>>,
   <<3, 0, 0>>, <<Interior, 770, 773>>, <<Interior, 771, 772>>, <<7, 0, 0>>, <<18, 0, 0>>, <<496, 0, 0>>, <<96, 0, 0>>, <<205, 0, 0>>,
   <<Interior, 777, 778>>, <<282, 0, 0>>, <<224, 0, 0>>, <<Interior, 780, 781>>, <<231, 0, 0>>, <<Interior, 782, 801>>, <<Interior, 783, 800>>, <<Interior, 784, 785>>,
   <<207, 0, 0>>, <<Interior, 786, 789>>, <<Interior, 787, 788>>, <<173, 0, 0>>, <<154, 0, 0>>, <<Interior, 790, 799>>, <<Interior, 791, 796>>, <<Interior, 792, 795>>,
   <<Interior, 793, 794>>, <<424, 0, 0>>, <<47, 0, 0>>, <<105, 0, 0>>, <<Interior, 797, 798>>, <<398, 0, 0>>, <<377, 0, 0>>, <<325, 0, 0>>,
   <<292, 0, 0>>, <<Interior, 802, 825>>, <<Interior, 803, 824>>, <<Interior, 804, 817>>, <<Interior, 805, 816>>, <<Interior, 806, 809>>, <<Interior, 807, 808>>, <<104, 0, 0>>,
   <<402, 0, 0>>, <<Interior, 810, 811>>, <<386, 0, 0>>, <<Interior, 812, 815>>, <<Interior, 813, 814>>, <<448, 0, 0>>, <<442, 0, 0>>, <<27, 0, 0>>,
   <<167, 0, 0>>, <<Interior, 818, 819>>, <<175, 0, 0>>, <<Interior, 820, 823>>, <<Interior, 821, 822>>, <<50, 0, 0>>, <<361, 0, 0>>, <<130, 0, 0>>,
   <<194, 0, 0>>, <<Interior, 826, 827>>, <<202, 0, 0>>, <<299, 0, 0>>, <<270, 0, 0>>, <<Interior, 830, 881>>, <<Interior, 831, 832>>, <<237, 0, 0>>,
   <<Interior, 833, 880>>, <<Interior, 834, 879>>, <<Interior, 835, 878>>, <<Interior, 836, 857>>, <<Interior, 837, 842>>, <<Interior, 838, 839>>, <<178, 0, 0>>, <<Interior, 840, 841>>,
   <<346, 0, 0>>, <<397, 0, 0>>, <<Interior, 843, 846>>, <<Interior, 844, 845>>, <<401, 0, 0>>, <<365, 0, 0>>, <<Interior, 847, 856>>, <<Interior, 848, 855>>,
   <<Interior, 849, 850>>, <<48, 0, 0>>, <<Interior, 851, 852>>, <<22, 0, 0>>, <<Interior, 853, 854>>, <<494, 0, 0>>, <<501, 0, 0>>, <<497, 0, 0>>,
   <<343, 0, 0>>, <<Interior, 858, 865>>, <<Interior, 859, 860>>, <<353, 0, 0>>, <<Interior, 861, 864>>, <<Interior, 862, 863>>, <<450, 0, 0>>, <<49, 0, 0>>,
   <<355, 0, 0>>, <<Interior, 866, 875>>, <<Interior, 867, 874>>, <<Interior, 868, 869>>, <<20, 0, 0>>, <<Interior, 870, 873>>, <<Interior, 871, 872>>, <<56, 0, 0>>,
   <<462, 0, 0>>, <<465, 0, 0>>, <<143, 0, 0>>, <<Interior, 876, 877>>, <<99, 0, 0>>, <<86, 0, 0>>, <<293, 0, 0>>, <<284, 0, 0>>,
   <<230, 0, 0>>, <<Interior, 882, 963>>, <<Interior, 883, 918>>, <<Interior, 884, 917>>, <<Interior, 885, 914>>, <<Interior, 886, 887>>, <<301, 0, 0>>, <<Interior, 888, 905>>,
   <<Interior, 889, 900>>, <<Interior, 890, 899>>, <<Interior, 891, 892>>, <<132, 0, 0>>, <<Interior, 893, 896>>, <<Interior, 894, 895>>, <<485, 0, 0>>, <<479, 0, 0>>,
   <<Interior, 897, 898>>, <<32, 0, 0>>, <<498, 0, 0>>, <<408, 0, 0>>, <<Interior, 901, 902>>, <<109, 0, 0>>, <<Interior, 903, 904>>, <<358, 0, 0>>,
   <<52, 0, 0>>, <<Interior, 906, 913>>, <<Interior, 907, 908>>, <<114, 0, 0>>, <<Interior, 909, 912>>, <<Interior, 910, 911>>, <<438, 0, 0>>, <<489, 0, 0>>,
   <<369, 0, 0>>, <<180, 0, 0>>, <<Interior, 915, 916>>, <<201, 0, 0>>, <<204, 0, 0>>, <<223, 0, 0>>, <<Interior, 919, 922>>, <<Interior, 920, 921>>,
   <<212, 0, 0>>, <<210, 0, 0>>, <<Interior, 923, 934>>, <<Interior, 924, 931>>, <<Interior, 925, 930>>, <<Interior, 926, 927>>, <<323, 0, 0>>, <<Interior, 928, 929>>,
   <<91, 0, 0>>, <<431, 0, 0>>, <<181, 0, 0>>, <<Interior, 932, 933>>, <<317, 0, 0>>, <<321, 0, 0>>, <<Interior, 935, 936>>, <<203, 0, 0>>,
   <<Interior, 937, 962>>, <<Interior, 938, 953>>, <<Interior, 939, 948>>, <<Interior, 940, 947>>, <<Interior, 941, 942>>, <<63, 0, 0>>, <<Interior, 943, 944>>, <<17, 0, 0>>,
   <<Interior, 945, 946>>, <<480, 0, 0>>, <<459, 0, 0>>, <<92, 0, 0>>, <<Interior, 949, 950>>, <<26, 0, 0>>, <<Interior, 951, 952>>, <<12, 0, 0>>,
   <<467, 0, 0>>, <<Interior, 954, 961>>, <<Interior, 955, 960>>, <<Interior, 956, 959>>, <<Interior, 957, 958>>, <<418, 0, 0>>, <<502, 0, 0>>, <<65, 0, 0>>,
   <<372, 0, 0>>, <<83, 0, 0>>, <<313, 0, 0>>, <<274, 0, 0>>, <<263, 0, 0>>, <<Interior, 966, 967>>, <<262, 0, 0>>, <<Interior, 968, 1021>>,
   <<Interior, 969, 970>>, <<265, 0, 0>>, <<Interior, 971, 1020>>, <<Interior, 972, 973>>, <<241, 0, 0>>, <<Interior, 974, 975>>, <<236, 0, 0>>, <<Interior, 976, 1019>>,
   <<Interior, 977, 978>>, <<221, 0, 0>>, <<Interior, 979, 982>>, <<Interior, 980, 981>>, <<304, 0, 0>>, <<302, 0, 0>>, <<Interior, 983, 998>>, <<Interior, 984, 997>>,
   <<Interior, 985, 986>>, <<158, 0, 0>>, <<Interior, 987, 996>>, <<Interior, 988, 991>>, <<Interior, 989, 990>>, <<387, 0, 0>>, <<390, 0, 0>>, <<Interior, 992, 995>>,
   <<Interior, 993, 994>>, <<453, 0, 0>>, <<436, 0, 0>>, <<411, 0, 0>>, <<121, 0, 0>>, <<307, 0, 0>>, <<Interior, 999, 1006>>, <<Interior, 1000, 1001>>,
   <<183, 0, 0>>, <<Interior, 1002, 1003>>, <<381, 0, 0>>, <<Interior, 1004, 1005>>, <<93, 0, 0>>, <<128, 0, 0>>, <<Interior, 1007, 1016>>, <<Interior, 1008, 1009>>,
   <<82, 0, 0>>, <<Interior, 1010, 1015>>, <<Interior, 1011, 1014>>, <<Interior, 1012, 1013>>, <<16, 0, 0>>, <<441, 0, 0>>, <<471, 0, 0>>, <<79, 0, 0>>,
   <<Interior, 1017, 1018>>, <<153, 0, 0>>, <<111, 0, 0>>, <<279, 0, 0>>, <<268, 0, 0>>, <<248, 0, 0>>, <<252, 0, 0>>, <<259, 0, 0>>,
   <<253, 0, 0>>, <<254, 0, 0>>, <<257, 0, 0>>
  >>

intraFrameCompressorCodebook ==
  [i \in 1..Len(intraFrameCompressorCodebookData) |->
     [bits |-> ToBits(intraFrameCompressorCodebookData[i][1]),
      numBits |-> intraFrameCompressorCodebookData[i][2]]]

\* The decoding tree with the two children of every interior node exchanged
intraFrameDecompressorTreeMirrored ==
  [i \in 1..Len(intraFrameDecompressorTreeData) |->
     [code |-> intraFrameDecompressorTreeData[i][1],
      childIndices |-> <<intraFrameDecompressorTreeData[i][3],
                         intraFrameDecompressorTreeData[i][2]>>]]

intraFrameDecompressorTree ==
  [i \in 1..Len(intraFrameDecompressorTreeData) |->
     [code |-> intraFrameDecompressorTreeData[i][1],
      childIndices |-> <<intraFrameDecompressorTreeData[i][2],
                         intraFrameDecompressorTreeData[i][3]>>]]

\* Pixel(x): conversion of an integer to the 16-bit pixel type
Pixel(x) == x % PixelRange

Abs(x) == IF x < 0 THEN -x ELSE x

\* IntraFrameCompressor::encode escaping the largest positive in-range error
IntraEncodeEscapesCodeMax(s, book, predictionError, wide) ==
  IF predictionError >= PixelRange - codeMax
  THEN Encode(s, book, predictionError - (PixelRange - codeMax), wide)
  ELSE IF predictionError < codeMax
  THEN Encode(s, book, predictionError + codeMax, wide)
  ELSE WriteBits(Encode(s, book, outOfRange, wide),
                 ToBits(predictionError), numPixelBits, wide)

\* IntraFrameCompressor::encode
IntraEncode(s, book, predictionError, wide) ==
  IF predictionError >= PixelRange - codeMax
  THEN Encode(s, book, predictionError - (PixelRange - codeMax), wide)
  ELSE IF predictionError <= codeMax
  THEN Encode(s, book, predictionError + codeMax, wide)
  ELSE WriteBits(Encode(s, book, outOfRange, wide),
                 ToBits(predictionError), numPixelBits, wide)

\* predictPaeth giving c the tie with the nearer of a and b
predictPaethPrefersC(a, b, c) ==
  LET p == a + b - c
      d == Abs(p - a)
      db == Abs(p - b)
      resultB == IF d > db THEN b ELSE a
      dB == IF d > db THEN db ELSE d
      dc == Abs(p - c)
  IN IF dB >= dc THEN c ELSE resultB

\* predictPaeth of IntraFrameCompressor.cpp
predictPaeth(a, b, c) ==
  LET p == a + b - c
      d == Abs(p - a)
      db == Abs(p - b)
      resultB == IF d > db THEN b ELSE a
      dB == IF d > db THEN db ELSE d
      dc == Abs(p - c)
  IN IF dB > dc THEN c ELSE resultB

\* predictPaeth of IntraFrameDecompressor.cpp
predictPaethDecompressor(a, b, c) ==
  LET p == a + b - c
      d == Abs(p - a)
      db == Abs(p - b)
      resultB == IF d > db THEN b ELSE a
      dB == IF d > db THEN db ELSE d
      dc == Abs(p - c)
  IN IF dB > dc THEN c ELSE resultB

\* In compressFrame, pixel pPtr[k] of the source is px[pPtr + k + 1].

\* The loop over the rest of the first row
RECURSIVE CompressFirstRow(_, _, _, _, _, _)
CompressFirstRow(s, book, px, pPtr, rowEnd, wide) ==
  IF pPtr # rowEnd
  THEN LET pred == px[pPtr - 1 + 1]
       IN CompressFirstRow(IntraEncode(s, book, Pixel(px[pPtr + 1] - pred), wide),
                           book, px, pPtr + 1, rowEnd, wide)
  ELSE s

\* The odd row loop taking the neighbour on the left, not yet visited, as the
\* horizontal neighbour
RECURSIVE CompressOddRowLeftNeighbour(_, _, _, _, _, _, _)
CompressOddRowLeftNeighbour(s, book, px, stride, pPtr, rowEnd, wide) ==
  IF pPtr # rowEnd
  THEN LET pred == predictPaeth(px[pPtr - 1 + 1], px[pPtr - stride + 1],
                                px[pPtr - stride + 1 + 1])
       IN CompressOddRowLeftNeighbour(
            IntraEncode(s, book, Pixel(px[pPtr + 1] - pred), wide),
            book, px, stride, pPtr - 1, rowEnd, wide)
  ELSE s

\* The loop over the remaining pixels of an odd row, right to left
RECURSIVE CompressOddRow(_, _, _, _, _, _, _)
CompressOddRow(s, book, px, stride, pPtr, rowEnd, wide) ==
  IF pPtr # rowEnd
  THEN LET pred == predictPaeth(px[pPtr + 1 + 1], px[pPtr - stride + 1],
                                px[pPtr - stride + 1 + 1])
       IN CompressOddRow(IntraEncode(s, book, Pixel(px[pPtr + 1] - pred), wide),
                         book, px, stride, pPtr - 1, rowEnd, wide)
  ELSE s

\* The loop over the remaining pixels of an even row, left to right
RECURSIVE CompressEvenRow(_, _, _, _, _, _, _)
CompressEvenRow(s, book, px, stride, pPtr, rowEnd, wide) ==
  IF pPtr # rowEnd
  THEN LET pred == predictPaeth(px[pPtr - 1 + 1], px[pPtr - stride + 1],
                                px[pPtr - stride - 1 + 1])
       IN CompressEvenRow(IntraEncode(s, book, Pixel(px[pPtr + 1] - pred), wide),
                          book, px, stride, pPtr + 1, rowEnd, wide)
  ELSE s

\* The loop over the remaining rows, from row y with pPtr as the previous
\* pass left it
RECURSIVE CompressRows(_, _, _, _, _, _, _, _)
CompressRows(s, book, px, stride, height, y, pPtr, wide) ==
  IF y < height
  THEN LET oddPtr == pPtr + (stride - 1)
           oddEnd == oddPtr - stride
           s1 == IntraEncode(s, book,
                             Pixel(px[oddPtr + 1] - px[oddPtr - stride + 1]), wide)
           s2 == CompressOddRow(s1, book, px, stride, oddPtr - 1, oddEnd, wide)
       IN IF y + 1 >= height
          THEN s2
          ELSE LET evenPtr == oddEnd + (stride + 1)
                   evenEnd == evenPtr + stride
                   s3 == IntraEncode(s2, book,
                                     Pixel(px[evenPtr + 1] - px[evenPtr - stride + 1]), wide)
                   s4 == CompressEvenRow(s3, book, px, stride, evenPtr + 1, evenEnd, wide)
               IN CompressRows(s4, book, px, stride, height, y + 2, evenEnd, wide)
  ELSE s

\* compressFrame leaving out the final flush of the encoder
IntraCompressFrameUnflushed(s, book, width, height, px, wide) ==
  LET stride == width
      rowEnd == 0 + stride
      s0 == WriteBits(s, ToBits(px[0 + 1]), numPixelBits, wide)
      s1 == CompressFirstRow(s0, book, px, 1, rowEnd, wide)
  IN CompressRows(s1, book, px, stride, height, 1, rowEnd, wide)

\* IntraFrameCompressor::compressFrame, from encoder state s
IntraCompressFrame(s, book, width, height, px, wide) ==
  LET stride == width
      rowEnd == 0 + stride
      s0 == WriteBits(s, ToBits(px[0 + 1]), numPixelBits, wide)
      s1 == CompressFirstRow(s0, book, px, 1, rowEnd, wide)
      s2 == CompressRows(s1, book, px, stride, height, 1, rowEnd, wide)
  IN SinkFlush(s2, wide)

-----------------------------------------------------------------------------
(* InterFrameDecompressor.h, IntraFrameDecompressor.cpp                     *)

\* InterFrameDecompressor::decode: <<prediction error, source'>>
InterDecode(r, tree, wide) ==
  LET code == Decode(r, tree, wide)
  IN IF code[1] < outOfRange
     THEN <<Pixel(code[1] - codeMax), code[2]>>
     ELSE LET raw == ReadBits(code[2], numPixelBits, wide)
          IN <<LowValue(raw[1], numPixelBits), raw[2]>>

\* IntraFrameDecompressor::decode (IntraFrameDecompressor.h): the decoder
\* mapping of the intra-frame codec, the inverse of IntraFrameCompressor::encode
IntraDecode(r, tree, wide) ==
  LET code == Decode(r, tree, wide)
  IN IF code[1] < outOfRange
     THEN <<Pixel(code[1] - codeMax), code[2]>>
     ELSE LET raw == ReadBits(code[2], numPixelBits, wide)
          IN <<LowValue(raw[1], numPixelBits), raw[2]>>

\* A decompressor state is [r, px]: the decoder's bit source and the
\* destination array.  Store(d, pPtr, pred) is *pPtr=pred+decode().
Store(d, tree, pPtr, pred, wide) ==
  LET e == IntraDecode(d.r, tree, wide)
  IN [r |-> e[2], px |-> [d.px EXCEPT ![pPtr + 1] = Pixel(pred + e[1])]]

RECURSIVE DecompressFirstRow(_, _, _, _, _)
DecompressFirstRow(d, tree, pPtr, rowEnd, wide) ==
  IF pPtr # rowEnd
  THEN DecompressFirstRow(Store(d, tree, pPtr, d.px[pPtr - 1 + 1], wide),
                          tree, pPtr + 1, rowEnd, wide)
  ELSE d

RECURSIVE DecompressOddRow(_, _, _, _, _, _)
DecompressOddRow(d, tree, stride, pPtr, rowEnd, wide) ==
  IF pPtr # rowEnd
  THEN LET pred == predictPaethDecompressor(d.px[pPtr + 1 + 1], d.px[pPtr - stride + 1],
                                d.px[pPtr - stride + 1 + 1])
       IN DecompressOddRow(Store(d, tree, pPtr, pred, wide),
                           tree, stride, pPtr - 1, rowEnd, wide)
  ELSE d

RECURSIVE DecompressEvenRow(_, _, _, _, _, _)
DecompressEvenRow(d, tree, stride, pPtr, rowEnd, wide) ==
  IF pPtr # rowEnd
  THEN LET pred == predictPaethDecompressor(d.px[pPtr - 1 + 1], d.px[pPtr - stride + 1],
                                d.px[pPtr - stride - 1 + 1])
       IN DecompressEvenRow(Store(d, tree, pPtr, pred, wide),
                            tree, stride, pPtr + 1, rowEnd, wide)
  ELSE d

RECURSIVE DecompressRows(_, _, _, _, _, _, _)
DecompressRows(d, tree, stride, height, y, pPtr, wide) ==
  IF y < height
  THEN LET oddPtr == pPtr + (stride - 1)
           oddEnd == oddPtr - stride
           d1 == Store(d, tree, oddPtr, d.px[oddPtr - stride + 1], wide)
           d2 == DecompressOddRow(d1, tree, stride, oddPtr - 1, oddEnd, wide)
       IN IF y + 1 >= height
          THEN d2
          ELSE LET evenPtr == oddEnd + (stride + 1)
                   evenEnd == evenPtr + stride
                   d3 == Store(d2, tree, evenPtr, d2.px[evenPtr - stride + 1], wide)
                   d4 == DecompressEvenRow(d3, tree, stride, evenPtr + 1, evenEnd, wide)
               IN DecompressRows(d4, tree, stride, height, y + 2, evenEnd, wide)
  ELSE d

\* The destination array before decompressFrame has written it
UnsetPixels(n) == [i \in 1..n |-> "unset"]

\* IntraFrameDecompressor::decompressFrame, from decoder state r into px
IntraDecompressFrame(r, tree, width, height, px, wide) ==
  LET stride == width
      rowEnd == 0 + stride
      first == ReadBits(r, numPixelBits, wide)
      d0 == [r |-> first[2], px |-> [px EXCEPT ![0 + 1] = LowValue(first[1], numPixelBits)]]
      d1 == DecompressFirstRow(d0, tree, 1, rowEnd, wide)
      d2 == DecompressRows(d1, tree, stride, height, 1, rowEnd, wide)
  IN [r |-> SourceFlush(d2.r), px |-> d2.px]

-----------------------------------------------------------------------------
(* InterFrameCompressor.h, InterFrameDecompressor.h.  The bodies of the two *)
(* compressFrame/decompressFrame methods and the embedded inter-frame code  *)
(* tables (InterFrameCompressor.cpp, InterFrameDecompressor.cpp) follow the *)
(* description of the inter-frame codec.                                    *)

\* The symbols of the inter-frame code: direct symbols 0..2*codeMax, the
\* out-of-range symbol, and one symbol per zero run length 1..maxZeroRunLength
numInterSymbols == outOfRange + maxZeroRunLength + 1

\* A fixed prefix code over symbols lo..hi as a balanced tree: the symbols up
\* to the middle under the first child, the others under the second.
RECURSIVE InterTreeNodes(_, _, _)
InterTreeNodes(lo, hi, base) ==
  IF lo = hi
  THEN <<[code |-> lo, childIndices |-> <<0, 0>>]>>
  ELSE LET mid == (lo + hi) \div 2
           leftSize == 2 * (mid - lo + 1) - 1
       IN <<[code |-> Interior, childIndices |-> <<base + 1, base + 1 + leftSize>>]>>
          \o InterTreeNodes(lo, mid, base + 1)
          \o InterTreeNodes(mid + 1, hi, base + 1 + leftSize)

\* The decoding tree of the inter-frame code, in prefix order
interFrameDecompressorTree == InterTreeNodes(0, numInterSymbols - 1, 0)

RECURSIVE InterCodeOf(_, _, _, _)
InterCodeOf(lo, hi, value, code) ==
  IF lo = hi THEN code
  ELSE LET mid == (lo + hi) \div 2
           shifted == Shl(code.bits, 1, "masked")
       IN IF value <= mid
          THEN InterCodeOf(lo, mid, value,
                           [bits |-> shifted, numBits |-> code.numBits + 1])
          ELSE InterCodeOf(mid + 1, hi, value,
                           [bits |-> BitOr(shifted, One32), numBits |-> code.numBits + 1])

\* The encoding codebook of the inter-frame code
interFrameCompressorCodebook ==
  [i \in 1..numInterSymbols |-> InterCodeOf(0, numInterSymbols - 1, i - 1, EmptyCode)]

\* An inter-frame compressor state is [s, zeroRunLength]: the encoder's bit
\* sink and the length of the current zero run.

\* finishZeroRun writing the symbol of the next shorter run
FinishZeroRunShort(c, book, wide) ==
  [s |-> Encode(c.s, book, outOfRange + c.zeroRunLength - 1, wide), zeroRunLength |-> 0]

\* finishZeroRun leaving the counter as it is
FinishZeroRunKeepsCount(c, book, wide) ==
  [s |-> Encode(c.s, book, outOfRange + c.zeroRunLength, wide), zeroRunLength |-> c.zeroRunLength]

\* InterFrameCompressor::finishZeroRun
FinishZeroRun(c, book, wide) ==
  [s |-> Encode(c.s, book, outOfRange + c.zeroRunLength, wide), zeroRunLength |-> 0]

\* The coding of one pixel difference
InterCompressPixel(c, book, delta, wide) ==
  IF delta = 0
  THEN LET c1 == [c EXCEPT !.zeroRunLength = c.zeroRunLength + 1]
       IN IF c1.zeroRunLength = maxZeroRunLength
          THEN FinishZeroRun(c1, book, wide)
          ELSE c1
  ELSE LET c1 == IF c.zeroRunLength > 0 THEN FinishZeroRun(c, book, wide) ELSE c
       IN [c1 EXCEPT !.s =
             IF delta >= PixelRange - codeMax
             THEN Encode(c1.s, book, delta - (PixelRange - codeMax), wide)
             ELSE IF delta <= codeMax
             THEN Encode(c1.s, book, delta + codeMax, wide)
             ELSE WriteBits(Encode(c1.s, book, outOfRange, wide),
                            ToBits(delta), numPixelBits, wide)]

\* One row of the grid, from column x
RECURSIVE InterCompressRow(_, _, _, _, _, _, _, _)
InterCompressRow(c, book, width, px0, px1, y, x, wide) ==
  IF x < width /\ c.zeroRunLength \in Nat
  THEN LET i == y * width + x + 1
       IN InterCompressRow(InterCompressPixel(c, book, Pixel(px1[i] - px0[i]), wide),
                           book, width, px0, px1, y, x + 1, wide)
  ELSE c

\* The rows of the grid, from row y
RECURSIVE InterCompressRows(_, _, _, _, _, _, _, _)
InterCompressRows(c, book, width, height, px0, px1, y, wide) ==
  IF y < height /\ c.zeroRunLength \in Nat
  THEN InterCompressRows(InterCompressRow(c, book, width, px0, px1, y, 0, wide),
                         book, width, height, px0, px1, y + 1, wide)
  ELSE c

\* InterFrameCompressor::compressFrame
InterCompressFrame(c, book, width, height, px0, px1, wide) ==
  LET c1 == InterCompressRows(c, book, width, height, px0, px1, 0, wide)
      c2 == IF c1.zeroRunLength > 0 THEN FinishZeroRun(c1, book, wide) ELSE c1
  IN [c2 EXCEPT !.s = SinkFlush(c2.s, wide)]

\* An inter-frame decompressor state is [r, px, i]: the decoder's bit source,
\* the destination array and the number of pixels written.

\* The decoding of the next symbol: a zero run copies the reference pixels,
\* any other symbol gives the difference to the reference pixel
InterDecompressSymbol(d, tree, px0, wide) ==
  LET code == Decode(d.r, tree, wide)
  IN IF code[1] > outOfRange
     THEN LET len == code[1] - outOfRange
          IN [r |-> code[2],
              px |-> [j \in DOMAIN d.px |->
                        IF j > d.i /\ j <= d.i + len THEN px0[j] ELSE d.px[j]],
              i |-> d.i + len]
     ELSE LET e == InterDecode(d.r, tree, wide)
          IN [r |-> e[2],
              px |-> [d.px EXCEPT ![d.i + 1] = Pixel(px0[d.i + 1] + e[1])],
              i |-> d.i + 1]

RECURSIVE InterDecompressLoop(_, _, _, _, _)
InterDecompressLoop(d, tree, numPixels, px0, wide) ==
  IF d.i < numPixels
  THEN InterDecompressLoop(InterDecompressSymbol(d, tree, px0, wide),
                           tree, numPixels, px0, wide)
  ELSE d

\* InterFrameDecompressor::decompressFrame
InterDecompressFrame(r, tree, width, height, px0, px1, wide) ==
  LET d == InterDecompressLoop([r |-> r, px |-> px1, i |-> 0], tree,
                               width * height, px0, wide)
  IN [d EXCEPT !.r = SourceFlush(d.r)]

-----------------------------------------------------------------------------
(* The codec specifications: a grid is compressed into the transport and    *)
(* decompressed from it.                                                    *)

\* Bound of the codec specifications: the number of pixels of a grid
MaxPixels == 6

\* Pixel values whose differences are 0, +1 and -1 (wrapping around), exactly
\* +256 and -256, and +257 and -257, just outside the directly coded range
PixelValues == {0, 256, 65535}

GridSizes == {wh \in (1..MaxPixels) \X (1..MaxPixels) : wh[1] * wh[2] <= MaxPixels}

InitIntra ==
  /\ BitInit
  /\ LogIdle
  /\ HuffIdle
  /\ ServerIdle
  /\ \E wh \in GridSizes :
       /\ frameWidth = wh[1]
       /\ frameHeight = wh[2]
       /\ pixels1 \in [1..(wh[1] * wh[2]) -> PixelValues]
  /\ pixels0 = <<>>
  /\ decoded = <<>>
  /\ codecPc = "start"
  /\ zeroRunLength = 0

\* IntraFrameCompressor::compressFrame(width, height, pixels)
CompressIntra ==
  /\ codecPc = "start"
  /\ \E s \in {IntraCompressFrame(TheSink, intraFrameCompressorCodebook,
                                  frameWidth, frameHeight, pixels1, wide) :
                 wide \in WideShiftOutcomes} : SetSink(s)
  /\ codecPc' = "compressed"
  /\ UNCHANGED <<filePos, sourceBuffer, usedBits, frameWidth, frameHeight,
                 pixels0, pixels1, decoded, zeroRunLength>>

\* IntraFrameDecompressor::decompressFrame(width, height, pixels)
DecompressIntra ==
  /\ codecPc = "compressed"
  /\ \E d \in {IntraDecompressFrame(TheSource, intraFrameDecompressorTree,
                                    frameWidth, frameHeight,
                                    UnsetPixels(frameWidth * frameHeight), wide) :
                 wide \in WideShiftOutcomes} :
       /\ SetSource(d.r)
       /\ decoded' = d.px
  /\ codecPc' = "decompressed"
  /\ UNCHANGED <<sinkBuffer, freeBits, file, frameWidth, frameHeight, pixels0, pixels1,
                 zeroRunLength>>

NextIntra ==
  \/ CompressIntra /\ UNCHANGED <<logVars, huffVars, serverVars>>
  \/ DecompressIntra /\ UNCHANGED <<logVars, huffVars, serverVars>>

SpecIntra == InitIntra /\ [][NextIntra]_vars

\* C1: decompressFrame applied to the words compressFrame wrote reconstructs
\* the grid exactly, for every width and height from 1 up.
IntraRoundTrip ==
  codecPc = "decompressed" => decoded = pixels1 /\ filePos = Len(file)

\* A grid of one column and one of one row were decompressed, and one with
\* three rows of two pixels that holds an escape-coded prediction error.
IntraRoundTripWitness ==
  /\ codecPc = "decompressed"
  /\ frameWidth = 2
  /\ frameHeight = 3
  /\ pixels1[1] = 0
  /\ pixels1[2] = 256
  /\ pixels1[3] = 65535
  /\ pixels1[4] = 256
  /\ pixels1[5] = 65535
  /\ pixels1[6] = 0

-----------------------------------------------------------------------------
(* The inter-frame codec specification                                      *)

\* Bound of the inter-frame specification: the number of pixels of the grid
\* that differ from the reference grid
MaxChanges == 2

\* Grid sizes: a small grid, and two with more than maxZeroRunLength and more
\* than twice maxZeroRunLength pixels
InterGridSizes == {<<2, 2>>, <<33, 16>>, <<16, 65>>}

\* The pixels that may differ from the reference grid: any pixel of a small
\* grid; the first, the last and those around a zero run of the maximum
\* length in a larger one; those after two such runs in the largest
ChangePositions(n) ==
  IF n <= maxZeroRunLength THEN 1..n
  ELSE IF n <= 2 * maxZeroRunLength
  THEN {1, maxZeroRunLength, maxZeroRunLength + 1, maxZeroRunLength + 2, n}
  ELSE {2 * maxZeroRunLength + 1, n}

\* The differences: +1 and -1, +256 and -256, +257 and -257
Deltas == {1, 65535, 256, 65280, 257, 65279}

\* The reference grid: pixel values near both ends of the pixel range
ReferenceGrid(n) == [i \in 1..n |-> IF i % 3 = 0 THEN 65535 ELSE IF i % 3 = 1 THEN 0 ELSE 300]

InitInter ==
  /\ BitInit
  /\ LogIdle
  /\ HuffIdle
  /\ ServerIdle
  /\ \E wh \in InterGridSizes :
       LET n == wh[1] * wh[2]
       IN /\ frameWidth = wh[1]
          /\ frameHeight = wh[2]
          /\ pixels0 = ReferenceGrid(n)
          /\ \E changed \in SUBSET ChangePositions(n) :
               /\ Cardinality(changed) <= MaxChanges
               /\ \E delta \in [changed -> Deltas] :
                    pixels1 = [i \in 1..n |->
                                 IF i \in changed
                                 THEN Pixel(ReferenceGrid(n)[i] + delta[i])
                                 ELSE ReferenceGrid(n)[i]]
  /\ decoded = <<>>
  /\ codecPc = "start"
  /\ zeroRunLength = 0

\* InterFrameCompressor::compressFrame(width, height, pixels0, pixels1)
CompressInter ==
  /\ codecPc = "start"
  /\ \E c \in {InterCompressFrame([s |-> TheSink, zeroRunLength |-> zeroRunLength],
                                  interFrameCompressorCodebook,
                                  frameWidth, frameHeight, pixels0, pixels1, wide) :
                 wide \in WideShiftOutcomes} :
       /\ SetSink(c.s)
       /\ zeroRunLength' = c.zeroRunLength
  /\ codecPc' = "compressed"
  /\ UNCHANGED <<filePos, sourceBuffer, usedBits, frameWidth, frameHeight,
                 pixels0, pixels1, decoded>>

\* InterFrameDecompressor::decompressFrame(width, height, pixels0, pixels1)
DecompressInter ==
  /\ codecPc = "compressed"
  /\ \E d \in {InterDecompressFrame(TheSource, interFrameDecompressorTree,
                                    frameWidth, frameHeight, pixels0,
                                    UnsetPixels(frameWidth * frameHeight), wide) :
                 wide \in WideShiftOutcomes} :
       /\ SetSource(d.r)
       /\ decoded' = d.px
  /\ codecPc' = "decompressed"
  /\ UNCHANGED <<sinkBuffer, freeBits, file, frameWidth, frameHeight, pixels0, pixels1,
                 zeroRunLength>>

NextInter ==
  \/ CompressInter /\ UNCHANGED <<logVars, huffVars, serverVars>>
  \/ DecompressInter /\ UNCHANGED <<logVars, huffVars, serverVars>>

SpecInter == InitInter /\ [][NextInter]_vars

\* C2: inter-frame decompression against the reference grid of what
\* compressFrame wrote for (reference, grid) yields exactly grid.
InterRoundTrip ==
  codecPc = "decompressed" => decoded = pixels1 /\ filePos = Len(file)

\* A grid was decompressed whose differences are +1 after a zero run of the
\* maximum length and -257 before a zero run that ends the grid.
InterRoundTripWitness ==
  /\ codecPc = "decompressed"
  /\ frameWidth * frameHeight > maxZeroRunLength + 2
  /\ Pixel(pixels1[maxZeroRunLength + 1] - pixels0[maxZeroRunLength + 1]) = 1
  /\ Pixel(pixels1[maxZeroRunLength + 2] - pixels0[maxZeroRunLength + 2]) = 65279
  /\ \A i \in 1..(frameWidth * frameHeight) :
       i \notin {maxZeroRunLength + 1, maxZeroRunLength + 2} => pixels1[i] = pixels0[i]

-----------------------------------------------------------------------------
(* The bit stream specification: a writer writes (value, width) pairs and   *)
(* flushes, a reader reads them back with the same widths.                  *)

Widths == 1..maxNumBits

\* The values written: for each width, all bits set ("ones") and alternating
\* bits from the value's most significant bit down ("alt")
Patterns == {"ones", "alt"}

Value(p, w) ==
  [i \in BitIndex |-> IF i <= maxNumBits - w THEN 0
                      ELSE IF p = "ones" THEN 1 ELSE (i - (maxNumBits - w)) % 2]

InitBitStream ==
  /\ BitInit
  /\ HuffIdle
  /\ ServerIdle
  /\ CodecIdle
  /\ written = <<>>
  /\ readValues = <<>>
  /\ phase = "write"

\* BitSink::write(value, width)
Write(p, width) ==
  /\ phase = "write"
  /\ Len(written) < MaxWrites
  /\ \E s \in {SinkWrite(TheSink, Value(p, width), width, wide) : wide \in WideShiftOutcomes} :
       SetSink(s)
  /\ written' = Append(written, <<p, width>>)
  /\ UNCHANGED <<filePos, sourceBuffer, usedBits, readValues, phase>>

\* BitSink::flush() at the end of the stream
Flush ==
  /\ phase = "write"
  /\ written # <<>>
  /\ \E s \in {SinkFlush(TheSink, wide) : wide \in WideShiftOutcomes} : SetSink(s)
  /\ phase' = "read"
  /\ UNCHANGED <<filePos, sourceBuffer, usedBits, written, readValues>>

\* BitSource::read(width) of the next value
Read ==
  /\ phase = "read"
  /\ Len(readValues) < Len(written)
  /\ LET width == written[Len(readValues) + 1][2]
     IN /\ SourceCanRead(TheSource, width)
        /\ \E res \in {SourceRead(TheSource, width, wide) : wide \in WideShiftOutcomes} :
             /\ readValues' = Append(readValues, res[1])
             /\ SetSource(res[2])
  /\ UNCHANGED <<sinkBuffer, freeBits, file, written, phase>>

\* BitSource::readBit() of the next value, when its width is 1
ReadBit ==
  /\ phase = "read"
  /\ Len(readValues) < Len(written)
  /\ written[Len(readValues) + 1][2] = 1
  /\ SourceCanRead(TheSource, 1)
  /\ \E res \in {SourceReadBit(TheSource, wide) : wide \in WideShiftOutcomes} :
       /\ readValues' = Append(readValues, res[1])
       /\ SetSource(res[2])
  /\ UNCHANGED <<sinkBuffer, freeBits, file, written, phase>>

NextBitStream ==
  \/ \E w \in Widths, p \in Patterns : Write(p, w) /\ UNCHANGED <<huffVars, codecVars, serverVars>>
  \/ Flush /\ UNCHANGED <<huffVars, codecVars, serverVars>>
  \/ Read /\ UNCHANGED <<huffVars, codecVars, serverVars>>
  \/ ReadBit /\ UNCHANGED <<huffVars, codecVars, serverVars>>

SpecBitStream == InitBitStream /\ [][NextBitStream]_vars

-----------------------------------------------------------------------------
\* C3: every value read back with the width it was written with equals the
\* value written, in order, however the values straddle the 32-bit words.
BitStreamRoundTrip ==
  \A k \in 1..Len(readValues) : readValues[k] = Value(written[k][1], written[k][2])

\* All values of a stream were read back, one of them split across two words,
\* one written after the register was exactly full.
BitStreamRoundTripWitness ==
  /\ phase = "read"
  /\ Len(written) = MaxWrites
  /\ Len(readValues) = Len(written)
  /\ Len(file) >= 2
  /\ written[1][2] + written[2][2] > maxNumBits

-----------------------------------------------------------------------------
(* The builder specification: leaves are added, the tree and the tables     *)
(* are built.                                                               *)

InitHuffman ==
  /\ BitInit
  /\ LogIdle
  /\ HuffIdle
  /\ ServerIdle
  /\ CodecIdle

NextHuffman ==
  \/ \E f \in Frequencies : AddLeaf(f) /\ UNCHANGED <<bitVars, logVars, codecVars, serverVars>>
  \/ BuildTreeStart /\ UNCHANGED <<bitVars, logVars, codecVars, serverVars>>
  \/ BuildTreeMerge /\ UNCHANGED <<bitVars, logVars, codecVars, serverVars>>
  \/ BuildTreeEnd /\ UNCHANGED <<bitVars, logVars, codecVars, serverVars>>
  \/ BuildTables /\ UNCHANGED <<bitVars, logVars, codecVars, serverVars>>

SpecHuffman == InitHuffman /\ [][NextHuffman]_vars

-----------------------------------------------------------------------------
\* The bits of a code read most-significant-bit first: bit k (1..numBits)
CodeBit(code, k) == code.bits[maxNumBits - code.numBits + k]

\* Code a is a bit-prefix of code b
IsPrefix(a, b) ==
  /\ a.numBits <= b.numBits
  /\ \A k \in 1..a.numBits : CodeBit(a, k) = CodeBit(b, k)

\* The node reached from nodeIndex along bits k..numBits of a code
RECURSIVE Walk(_, _, _, _)
Walk(tree, nodeIndex, code, k) ==
  IF k > code.numBits THEN nodeIndex
  ELSE Walk(tree, tree[nodeIndex + 1].childIndices[CodeBit(code, k) + 1], code, k + 1)

\* C4: the codebook is prefix-free, and the bits of every leaf's code lead
\* from index 0 of the decoding tree to a leaf carrying that leaf's symbol.
CodebookPrefixFreeAndDecodes ==
  builderPc = "tables" =>
    /\ ~codebook.thrown
    /\ Len(codebook.codes) = numLeaves
    /\ \A s, t \in 1..numLeaves :
         s # t => ~IsPrefix(codebook.codes[s], codebook.codes[t])
    /\ \A s \in 1..numLeaves :
         decodingTree[Walk(decodingTree, 0, codebook.codes[s], 1) + 1] =
           [code |-> s - 1, childIndices |-> <<0, 0>>]

\* Tables were built for a tree with leaves of equal and of different
\* frequencies and codes of different lengths.
CodebookPrefixFreeAndDecodesWitness ==
  /\ builderPc = "tables"
  /\ numLeaves >= 3
  /\ \E s, t \in 1..numLeaves : codebook.codes[s].numBits < codebook.codes[t].numBits
  /\ \E s, t \in 1..numLeaves :
       s # t /\ codeNodes[s].frequency = codeNodes[t].frequency

-----------------------------------------------------------------------------
(* RemoteServer.cpp: the streaming server                                   *)

\* Bounds of the server specification: the connections accepted and the grid
\* triplets delivered by the simulation
MaxConnections == 2
MaxTriplets == 2

\* RemoteServer::Client::State
START == 0
INTRA == 1
INTER == 2

\* The endianness token and what a reader of the other byte order sees
endiannessToken == \H12345678
swappedEndiannessToken == \H78563412

\* The mark of a value that was never set, and the words a read of such a
\* value may give
Unset == -1
UninitialisedWords == {0, 1}
NoSlot == -1
NoAck == -1

\* The byte swap of a 16-bit and a 32-bit word, done by a read from a pipe
\* with swapOnRead set
SwapUInt16(word) == (word % 256) * 256 + (word \div 256)
SwapUInt32(word) ==
  (word % 256) * 16777216 + ((word \div 256) % 256) * 65536
    + ((word \div 65536) % 256) * 256 + (word \div 16777216)

\* clientPipe.read<Misc::UInt32>(), clientPipe.read<Misc::UInt16>() and
\* clientPipe.read(Misc::Float32*, 3) of a word as it arrived
ReadUInt32(word, swapOnRead) == IF swapOnRead THEN SwapUInt32(word) ELSE word
ReadUInt16(word, swapOnRead) == IF swapOnRead THEN SwapUInt16(word) ELSE word
ReadFloat32(word, swapOnRead) == IF swapOnRead THEN SwapUInt32(word) ELSE word

\* The first words of the messages of clients: handshake acks, and message tokens
AckWords == {endiannessToken, swappedEndiannessToken, \H12345679}
TokenWords == {0, 256}

\* The position and direction words of a position update message
positionWord == \H3F800000
directionWord == \H0000803F

\* The messages a client may send; closed is a connection that ended, on
\* which the read throws
ClosedMessage ==
  [closed |-> TRUE, word |-> 0, position |-> positionWord, direction |-> directionWord]
AckMessages ==
  {ClosedMessage} \cup
  [closed : {FALSE}, word : AckWords, position : {positionWord}, direction : {directionWord}]
TokenMessages ==
  {ClosedMessage} \cup
  [closed : {FALSE}, word : TokenWords, position : {positionWord}, direction : {directionWord}]

ClientIds == 1..MaxConnections

\* RemoteServer::Client::Client: position and direction are not set
NewClient(id) ==
  [id |-> id, state |-> START, swapOnRead |-> FALSE, position |-> Unset, direction |-> Unset]

\* The clients of a list, as a set of ids
Ids(list) == {list[i].id : i \in 1..Len(list)}

\* The listener key of the listening socket
listenKey == 0

\* disconnectClient with the position of the last list element not moved
\* into the position of the removed one
DisconnectClientDropsLast(server, client, removeListener) ==
  IF \E i \in 1..Len(server.clients) : server.clients[i].id = client
  THEN LET cIt == CHOOSE i \in 1..Len(server.clients) : server.clients[i].id = client
           last == Len(server.clients)
       IN [clients |-> SubSeq(server.clients, 1, last - 1),
           numClients |-> IF server.clients[cIt].state >= INTRA
                          THEN server.numClients - 1
                          ELSE server.numClients,
           listeners |-> IF removeListener
                         THEN server.listeners \ {client}
                         ELSE server.listeners]
  ELSE server

\* The largest value of an unsigned int, which a decrement of 0 gives
\* (2^32 - 1 in the program; the largest number of the model here)
maxUnsigned == 2147483647

\* disconnectClient reducing the number of streaming clients whatever the
\* state of the client
DisconnectClientAlwaysCounts(server, client, removeListener) ==
  IF \E i \in 1..Len(server.clients) : server.clients[i].id = client
  THEN LET cIt == CHOOSE i \in 1..Len(server.clients) : server.clients[i].id = client
           last == Len(server.clients)
       IN [clients |-> SubSeq([server.clients EXCEPT ![cIt] = server.clients[last]],
                              1, last - 1),
           numClients |-> IF server.numClients = 0 THEN maxUnsigned
                          ELSE server.numClients - 1,
           listeners |-> IF removeListener
                         THEN server.listeners \ {client}
                         ELSE server.listeners]
  ELSE server

\* RemoteServer::disconnectClient, on the record [clients, numClients, listeners]
DisconnectClient(server, client, removeListener) ==
  IF \E i \in 1..Len(server.clients) : server.clients[i].id = client
  THEN LET cIt == CHOOSE i \in 1..Len(server.clients) : server.clients[i].id = client
           last == Len(server.clients)
       IN [clients |-> SubSeq([server.clients EXCEPT ![cIt] = server.clients[last]],
                              1, last - 1),
           numClients |-> IF server.clients[cIt].state >= INTRA
                          THEN (IF server.numClients = 0 THEN maxUnsigned
                                ELSE server.numClients - 1)
                          ELSE server.numClients,
           listeners |-> IF removeListener
                         THEN server.listeners \ {client}
                         ELSE server.listeners]
  ELSE server

TheServer == [clients |-> clients, numClients |-> numClients, listeners |-> listeners]

SetServer(server) ==
  /\ numClients' = server.numClients
  /\ listeners' = server.listeners
  /\ clients' = server.clients

\* The transformation made of a client's position and direction
PositionOf(client, garbage) ==
  <<IF client.position = Unset THEN garbage ELSE client.position,
    IF client.direction = Unset THEN garbage ELSE client.direction>>

\* communicationThreadMethod: the positions of the clients in streaming state
RECURSIVE Positions(_, _)
Positions(list, garbage) ==
  IF list = <<>> THEN <<>>
  ELSE IF Head(list).state >= INTRA
  THEN <<PositionOf(Head(list), garbage)>> \o Positions(Tail(list), garbage)
  ELSE Positions(Tail(list), garbage)

\* Threads::TripleBuffer::startNewValue: a slot that is neither locked nor
\* the most recent
StartNewValue(locked, mostRecent) ==
  IF (locked + 1) % 3 = mostRecent THEN (locked + 2) % 3 ELSE (locked + 1) % 3

\* The iteration that locks the new triplet and does not look at the result
CommunicationThreadPositionsDropsResult(list) ==
  /\ clientPositions' \in {Positions(list, garbage) : garbage \in UninitialisedWords}
  /\ gridsLocked' = gridsMostRecent
  /\ commPc' = "dispatch"

\* communicationThreadMethod, from the return of dispatchNextEvent to
\* grids.lockNewValue, with the client list the event left
CommunicationThreadPositions(list) ==
  /\ clientPositions' \in {Positions(list, garbage) : garbage \in UninitialisedWords}
  /\ gridsLocked' = gridsMostRecent
  /\ commPc' = IF gridsLocked # gridsMostRecent THEN "broadcast" ELSE "dispatch"

\* The dispatcher woken by dispatcher.interrupt, no callback called
Interrupted ==
  /\ commPc = "dispatch"
  /\ CommunicationThreadPositions(clients)
  /\ UNCHANGED <<clients, numClients, listeners, numConnections,
                 currentGrid, quantized, gridsBuffer, gridsMostRecent, gridsNext,
                 requestSlot, numTriplets, numBroadcasts, sentLog, ackedAt, departed>>

\* One iteration of communicationThreadMethod up to grids.lockNewValue, in
\* which the dispatcher calls RemoteServer::newConnectionCallback: sent is
\* whether the writes of the greeting to the new client went through
NewConnectionCallback(sent) ==
  /\ commPc = "dispatch"
  /\ listenKey \in listeners
  /\ numConnections < MaxConnections
  /\ numConnections' = numConnections + 1
  /\ IF sent
     THEN /\ listeners' = listeners \cup {numConnections + 1}
          /\ clients' = Append(clients, NewClient(numConnections + 1))
     ELSE UNCHANGED <<clients, listeners>>
  /\ CommunicationThreadPositions(clients')
  /\ UNCHANGED <<numClients, currentGrid, quantized, gridsBuffer, gridsMostRecent,
                 gridsNext, requestSlot, numTriplets, numBroadcasts, sentLog, ackedAt,
                 departed>>

\* The handshake ack accepted whatever the token
HandleAckAnyToken(client, n, msg) ==
  IF msg.closed
  THEN [thrown |-> TRUE, client |-> client, numClients |-> n]
  ELSE [thrown |-> FALSE, client |-> [client EXCEPT !.state = INTRA], numClients |-> n + 1]

\* clientMessageCallback, case Client::START: [thrown, client, numClients]
HandleAck(client, n, msg) ==
  IF msg.closed
  THEN [thrown |-> TRUE, client |-> client, numClients |-> n]
  ELSE LET token == ReadUInt32(msg.word, client.swapOnRead)
           c1 == IF token = swappedEndiannessToken
                 THEN [client EXCEPT !.swapOnRead = TRUE]
                 ELSE client
       IN IF token # swappedEndiannessToken /\ token # endiannessToken
          THEN [thrown |-> TRUE, client |-> c1, numClients |-> n]
          ELSE [thrown |-> FALSE, client |-> [c1 EXCEPT !.state = INTRA],
                numClients |-> n + 1]

\* The position update that starts the stream over
HandleTokenRestarts(client, n, msg) ==
  IF msg.closed
  THEN [thrown |-> TRUE, client |-> client, numClients |-> n]
  ELSE LET token == ReadUInt16(msg.word, client.swapOnRead)
       IN IF token = 0
          THEN [thrown |-> FALSE,
                client |-> [client EXCEPT
                              !.state = INTRA,
                              !.position = ReadFloat32(msg.position, client.swapOnRead),
                              !.direction = ReadFloat32(msg.direction, client.swapOnRead)],
                numClients |-> n]
          ELSE [thrown |-> TRUE, client |-> client, numClients |-> n]

\* clientMessageCallback, cases Client::INTRA and Client::INTER
HandleToken(client, n, msg) ==
  IF msg.closed
  THEN [thrown |-> TRUE, client |-> client, numClients |-> n]
  ELSE LET token == ReadUInt16(msg.word, client.swapOnRead)
       IN IF token = 0
          THEN [thrown |-> FALSE,
                client |-> [client EXCEPT
                              !.position = ReadFloat32(msg.position, client.swapOnRead),
                              !.direction = ReadFloat32(msg.direction, client.swapOnRead)],
                numClients |-> n]
          ELSE [thrown |-> TRUE, client |-> client, numClients |-> n]

\* The try block of clientMessageCallback for the message msg
HandleMessage(client, n, msg) ==
  IF client.state = START
  THEN HandleAck(client, n, msg)
  ELSE HandleToken(client, n, msg)

\* The messages the client at position i of the list may send
MessagesOf(i) == IF clients[i].state = START THEN AckMessages ELSE TokenMessages

\* One iteration of communicationThreadMethod up to grids.lockNewValue, in
\* which the dispatcher calls RemoteServer::clientMessageCallback for a
\* message of the client at position i of the list
ClientMessageCallback(i, msg) ==
  /\ commPc = "dispatch"
  /\ i \in 1..Len(clients)
  /\ clients[i].id \in listeners
  /\ UNCHANGED <<numConnections, numTriplets, numBroadcasts, requestSlot, gridsNext,
                 gridsMostRecent, currentGrid, quantized, gridsBuffer, sentLog>>
  /\ LET client == clients[i]
         handled == HandleMessage(client, numClients, msg)
         server == [clients |-> [clients EXCEPT ![i] = handled.client],
                    numClients |-> handled.numClients,
                    listeners |-> listeners]
     IN IF handled.thrown
        THEN LET disconnected == DisconnectClient(server, client.id, FALSE)
             IN /\ departed' = [id |-> client.id,
                                 reason |-> IF msg.closed THEN "closed" ELSE "violation"]
                /\ UNCHANGED ackedAt
                /\ SetServer([disconnected EXCEPT
                                !.listeners = disconnected.listeners \ {client.id}])
        ELSE /\ UNCHANGED departed
             /\ ackedAt' = IF client.state = START
                           THEN [ackedAt EXCEPT ![client.id] = numBroadcasts]
                           ELSE ackedAt
             /\ SetServer(server)
  /\ CommunicationThreadPositions(clients')

\* The quantization factors of an elevation range of -100..65435
eScale == 1
eOffsetTwice == 201

\* RemoteServer::quantizeGrid, for one elevation value
QuantizeValue(elevation) ==
  LET seTwice == 2 * elevation * eScale + eOffsetTwice
  IN IF seTwice <= 0 THEN 0
     ELSE IF seTwice >= 2 * 65535 THEN 65535
     ELSE seTwice \div 2

\* The quantization of a grid triplet
Quantize(triplet) ==
  [version |-> triplet.version, pixel |-> QuantizeValue(triplet.elevation)]

\* The intra-coded triplet sent again to a client that was sent one
SendIntraStaysIntra(client, newTriplet, cycle) ==
  [client |-> client,
   entry |-> [coding |-> "intra", grid |-> newTriplet, reference |-> newTriplet,
              cycle |-> cycle]]

\* communicationThreadMethod: the send to a client in state INTRA
SendIntra(client, newTriplet, cycle) ==
  [client |-> [client EXCEPT !.state = INTER],
   entry |-> [coding |-> "intra", grid |-> newTriplet, reference |-> newTriplet,
              cycle |-> cycle]]

\* The inter-coded triplet coded against the new triplet itself
SendInterAgainstNew(client, currentTriplet, newTriplet, cycle) ==
  [client |-> client,
   entry |-> [coding |-> "inter", grid |-> newTriplet, reference |-> newTriplet,
              cycle |-> cycle]]

\* communicationThreadMethod: the send to a client in state INTER
SendInter(client, currentTriplet, newTriplet, cycle) ==
  [client |-> client,
   entry |-> [coding |-> "inter", grid |-> newTriplet, reference |-> currentTriplet,
              cycle |-> cycle]]

\* The loop that ends at the first client whose send fails
RECURSIVE SendLoop(_, _, _, _, _, _, _, _)
SendLoopEndsAtFailure(list, cIt, fails, currentTriplet, newTriplet, cycle, sent, deadClients) ==
  IF cIt > Len(list)
  THEN [clients |-> list, sentLog |-> sent, deadClients |-> deadClients]
  ELSE LET client == list[cIt]
       IN IF client.state >= INTRA /\ client.id \in fails
          THEN [clients |-> list, sentLog |-> sent,
                deadClients |-> Append(deadClients, client.id)]
          ELSE IF client.state >= INTRA
          THEN LET done == IF client.state = INTRA
                           THEN SendIntra(client, newTriplet, cycle)
                           ELSE SendInter(client, currentTriplet, newTriplet, cycle)
               IN SendLoop([list EXCEPT ![cIt] = done.client], cIt + 1, fails,
                           currentTriplet, newTriplet, cycle,
                           [sent EXCEPT ![client.id] = Append(sent[client.id], done.entry)],
                           deadClients)
          ELSE SendLoop(list, cIt + 1, fails, currentTriplet, newTriplet, cycle,
                        sent, deadClients)

\* communicationThreadMethod: the loop over the clients, from position cIt;
\* fails are the clients whose pipe throws on a write
SendLoop(list, cIt, fails, currentTriplet, newTriplet, cycle, sent, deadClients) ==
  IF cIt > Len(list)
  THEN [clients |-> list, sentLog |-> sent, deadClients |-> deadClients]
  ELSE LET client == list[cIt]
       IN IF client.state >= INTRA /\ client.id \in fails
          THEN SendLoop(list, cIt + 1, fails, currentTriplet, newTriplet, cycle,
                        sent, Append(deadClients, client.id))
          ELSE IF client.state >= INTRA
          THEN LET done == IF client.state = INTRA
                           THEN SendIntra(client, newTriplet, cycle)
                           ELSE SendInter(client, currentTriplet, newTriplet, cycle)
               IN SendLoop([list EXCEPT ![cIt] = done.client], cIt + 1, fails,
                           currentTriplet, newTriplet, cycle,
                           [sent EXCEPT ![client.id] = Append(sent[client.id], done.entry)],
                           deadClients)
          ELSE SendLoop(list, cIt + 1, fails, currentTriplet, newTriplet, cycle,
                        sent, deadClients)

\* communicationThreadMethod: the loop over the dead clients
RECURSIVE DisconnectAll(_, _)
DisconnectAll(server, deadClients) ==
  IF deadClients = <<>> THEN server
  ELSE DisconnectAll(DisconnectClient(server, Head(deadClients), TRUE), Tail(deadClients))

\* The clients of a list that are in streaming state
Streaming(list) == {list[i].id : i \in {j \in 1..Len(list) : list[j].state >= INTRA}}

\* communicationThreadMethod, after grids.lockNewValue returned true: one
\* broadcast cycle
CommunicationThreadBroadcast(fails) ==
  /\ commPc = "broadcast"
  /\ fails \subseteq Streaming(clients)
  /\ numBroadcasts' = numBroadcasts + 1
  /\ commPc' = "dispatch"
  /\ UNCHANGED <<numConnections, clientPositions, gridsBuffer, gridsLocked,
                 gridsMostRecent, gridsNext, requestSlot, numTriplets, ackedAt>>
  /\ LET newGrid == 1 - currentGrid
         q == [quantized EXCEPT ![newGrid] = Quantize(gridsBuffer[gridsLocked])]
         sent == SendLoop(clients, 1, fails, q[currentGrid], q[newGrid],
                          numBroadcasts + 1, sentLog, <<>>)
     IN /\ SetServer(DisconnectAll([clients |-> sent.clients, numClients |-> numClients,
                                    listeners |-> listeners], sent.deadClients))
        /\ quantized' = q
        /\ sentLog' = sent.sentLog
        /\ departed' = IF sent.deadClients = <<>> THEN departed
                       ELSE [id |-> sent.deadClients[Len(sent.deadClients)],
                             reason |-> "sendFailure"]
        /\ currentGrid' = newGrid

\* The mark of a grid triplet that a grid request is filling
Partial == -2

\* A grid triplet of which only a part is written
PartialTriplet == [version |-> Partial, elevation |-> Unset]

\* frame that hands the grid request the most recent slot of the buffer
FrameWithinFillsMostRecent(due, limit) ==
  /\ commPc # "idle"
  /\ IF numClients > 0 /\ due /\ numTriplets < limit
     THEN LET gb == gridsMostRecent
          IN /\ gridsNext' = gb
             /\ requestSlot' = IF requestSlot = NoSlot THEN gb ELSE requestSlot
             /\ gridsBuffer' = IF requestSlot = NoSlot
                               THEN [gridsBuffer EXCEPT ![gb] = PartialTriplet]
                               ELSE gridsBuffer
     ELSE UNCHANGED <<gridsNext, requestSlot, gridsBuffer>>
  /\ UNCHANGED <<clients, numClients, listeners, numConnections, commPc, clientPositions,
                 currentGrid, quantized, gridsLocked, gridsMostRecent,
                 numTriplets, numBroadcasts, sentLog, ackedAt, departed>>

\* RemoteServer::frame: due is whether the application time has reached the
\* next request time; a grid request is taken if none is active, and from
\* then on fills the slot it was given; limit bounds the triplets requested
FrameWithin(due, limit) ==
  /\ commPc # "idle"
  /\ IF numClients > 0 /\ due /\ numTriplets < limit
     THEN LET gb == StartNewValue(gridsLocked, gridsMostRecent)
          IN /\ gridsNext' = gb
             /\ requestSlot' = IF requestSlot = NoSlot THEN gb ELSE requestSlot
             /\ gridsBuffer' = IF requestSlot = NoSlot
                               THEN [gridsBuffer EXCEPT ![gb] = PartialTriplet]
                               ELSE gridsBuffer
     ELSE UNCHANGED <<gridsNext, requestSlot, gridsBuffer>>
  /\ UNCHANGED <<clients, numClients, listeners, numConnections, commPc, clientPositions,
                 currentGrid, quantized, gridsLocked, gridsMostRecent,
                 numTriplets, numBroadcasts, sentLog, ackedAt, departed>>

\* RemoteServer::frame in the server specification
Frame(due) == FrameWithin(due, MaxTriplets)

\* The grid triplet the simulation delivers as its k-th
Triplet(k) == [version |-> k, elevation |-> (k - 2) * 40000]

\* The grids of the active request read back, and RemoteServer::readBackCallback
ReadBackCallback ==
  /\ requestSlot # NoSlot
  /\ gridsBuffer' = [gridsBuffer EXCEPT ![requestSlot] = Triplet(numTriplets + 1)]
  /\ numTriplets' = numTriplets + 1
  /\ gridsMostRecent' = gridsNext
  /\ requestSlot' = NoSlot
  /\ UNCHANGED <<clients, numClients, listeners, numConnections, commPc, clientPositions,
                 currentGrid, quantized, gridsLocked, gridsNext,
                 numBroadcasts, sentLog, ackedAt, departed>>

\* RemoteServer::RemoteServer
Init ==
  /\ BitInit
  /\ LogIdle
  /\ HuffIdle
  /\ CodecIdle
  /\ clients = <<>>
  /\ numClients = 0
  /\ listeners = {listenKey}
  /\ numConnections = 0
  /\ commPc = "dispatch"
  /\ clientPositions = <<>>
  /\ currentGrid = 1
  /\ quantized = [g \in 0..1 |-> [version |-> 0, pixel |-> Unset]]
  /\ gridsBuffer = [slot \in 0..2 |-> [version |-> 0, elevation |-> Unset]]
  /\ gridsLocked = 0
  /\ gridsMostRecent = 0
  /\ gridsNext = 0
  /\ requestSlot = NoSlot
  /\ numTriplets = 0
  /\ numBroadcasts = 0
  /\ sentLog = [id \in ClientIds |-> <<>>]
  /\ ackedAt = [id \in ClientIds |-> NoAck]
  /\ departed = [id |-> 0, reason |-> "no"]
  /\ shutdownPc = "running"

Next ==
  \/ \E sent \in BOOLEAN :
       NewConnectionCallback(sent) /\ UNCHANGED <<bitVars, logVars, huffVars, codecVars, shutdownPc>>
  \/ \E i \in 1..Len(clients) : \E msg \in MessagesOf(i) :
       ClientMessageCallback(i, msg) /\ UNCHANGED <<bitVars, logVars, huffVars, codecVars, shutdownPc>>
  \/ Interrupted /\ UNCHANGED <<bitVars, logVars, huffVars, codecVars, shutdownPc>>
  \/ \E fails \in SUBSET ClientIds :
       CommunicationThreadBroadcast(fails)
         /\ UNCHANGED <<bitVars, logVars, huffVars, codecVars, shutdownPc>>
  \/ \E due \in BOOLEAN : Frame(due) /\ UNCHANGED <<bitVars, logVars, huffVars, codecVars, shutdownPc>>
  \/ ReadBackCallback /\ UNCHANGED <<bitVars, logVars, huffVars, codecVars, shutdownPc>>

Spec == Init /\ [][Next]_vars

-----------------------------------------------------------------------------
(* The server's per-client protocol                                         *)

\* The record of client id in a list
ClientById(list, id) == list[CHOOSE i \in 1..Len(list) : list[i].id = id]

\* The last triplet sent to a connection
LastSent(sent, id) == sent[id][Len(sent[id])]

\* C5: the first triplet sent to a client is intra-coded and goes out in the
\* first broadcast cycle after its handshake ack, every later triplet sent to
\* it is inter-coded, and a client in START is sent no triplet.
IntraFirstThenInter ==
  /\ \A id \in ClientIds :
       sentLog[id] # <<>> =>
         /\ ackedAt[id] # NoAck
         /\ sentLog[id][1].coding = "intra"
         /\ sentLog[id][1].cycle = ackedAt[id] + 1
         /\ \A k \in 2..Len(sentLog[id]) : sentLog[id][k].coding = "inter"
  /\ \A i \in 1..Len(clients) :
       /\ clients[i].state = START =>
            sentLog[clients[i].id] = <<>> /\ ackedAt[clients[i].id] = NoAck
       /\ clients[i].state = INTRA =>
            sentLog[clients[i].id] = <<>> /\ ackedAt[clients[i].id] = numBroadcasts
       /\ clients[i].state = INTER => sentLog[clients[i].id] # <<>>

\* A client was sent an intra-coded and then an inter-coded triplet while
\* another client is in START.
IntraFirstThenInterWitness ==
  /\ \E id \in ClientIds :
       /\ Len(sentLog[id]) >= 2
       /\ sentLog[id][1].coding = "intra"
       /\ sentLog[id][2].coding = "inter"
  /\ \E i \in 1..Len(clients) : clients[i].state = START

\* C6: each inter-coded triplet is coded against the triplet sent to the same
\* client just before it, in the preceding broadcast cycle; a client in INTER
\* has been sent the triplet of every broadcast cycle since its intra-coded
\* one, the last being the server's current triplet; no client is in INTER
\* before the first broadcast cycle.
InterReferenceIsLastSent ==
  /\ \A id \in ClientIds : \A k \in 1..Len(sentLog[id]) :
       /\ sentLog[id][k].coding = "inter" =>
            /\ k > 1
            /\ sentLog[id][k].reference = sentLog[id][k - 1].grid
       /\ k > 1 => sentLog[id][k].cycle = sentLog[id][k - 1].cycle + 1
  /\ \A i \in 1..Len(clients) :
       clients[i].state = INTER =>
         /\ numBroadcasts > 0
         /\ sentLog[clients[i].id] # <<>>
         /\ LastSent(sentLog, clients[i].id).cycle = numBroadcasts
         /\ LastSent(sentLog, clients[i].id).grid = quantized[currentGrid]

\* A client in INTER was sent the second triplet coded against the first.
InterReferenceIsLastSentWitness ==
  \E i \in 1..Len(clients) :
    /\ clients[i].state = INTER
    /\ Len(sentLog[clients[i].id]) = 2
    /\ sentLog[clients[i].id][2].coding = "inter"
    /\ sentLog[clients[i].id][2].reference.version = 1
    /\ sentLog[clients[i].id][2].grid.version = 2

\* What a handshake ack does to the client at position i of the list
AckOutcome(i, msg) ==
  LET client == clients[i]
  IN IF msg.word = endiannessToken
     THEN /\ client.id \in Ids(clients')
          /\ ClientById(clients', client.id) = [client EXCEPT !.state = INTRA]
          /\ ~ClientById(clients', client.id).swapOnRead
     ELSE IF msg.word = swappedEndiannessToken
     THEN /\ client.id \in Ids(clients')
          /\ ClientById(clients', client.id) =
               [client EXCEPT !.state = INTRA, !.swapOnRead = TRUE]
          /\ \A id \in Ids(clients) \ {client.id} :
               /\ id \in Ids(clients')
               /\ ClientById(clients', id).swapOnRead = ClientById(clients, id).swapOnRead
     ELSE /\ client.id \notin Ids(clients')
          /\ client.id \notin listeners'
          /\ numClients' = numClients

\* C7: an ack equal to the magic moves a client in START to INTRA with byte
\* swapping off, one equal to the byte-swapped magic moves it to INTRA with
\* swap-on-read set for that client only, and any other ack disconnects the
\* client, which is then not counted and is never sent a grid.
HandshakeAck ==
  /\ [](\A id \in 1..numConnections :
          (id \notin Ids(clients) /\ ackedAt[id] = NoAck) =>
            /\ sentLog[id] = <<>>
            /\ id \notin Ids(clients)
            /\ id \notin listeners)
  /\ [][\A i \in 1..Len(clients) : \A msg \in AckMessages :
          (clients[i].state = START /\ ~msg.closed /\ ClientMessageCallback(i, msg))
            => AckOutcome(i, msg)]_vars

\* A client acked with the byte-swapped magic and is streaming with
\* swap-on-read set, and another was disconnected for its ack.
HandshakeAckWitness ==
  /\ \E i \in 1..Len(clients) : clients[i].state >= INTRA /\ clients[i].swapOnRead
  /\ departed.reason = "violation"
  /\ ackedAt[departed.id] = NoAck

\* C8: in every step that changes the client list, a client's state changes
\* only from START to INTRA, on a valid ack, or from INTRA to INTER, on an
\* intra-coded send to it; a position update leaves the state as it is; a
\* client enters the list in START and leaves it only by being disconnected,
\* in its message callback or after a failed send.
StateOnlyAdvances ==
  [][\/ clients' = clients
     \/ /\ \A i \in 1..Len(clients) : \A j \in 1..Len(clients') :
             \/ clients[i].id # clients'[j].id
             \/ clients'[j].state = clients[i].state
             \/ /\ clients[i].state = START
                /\ clients'[j].state = INTRA
                /\ \E msg \in AckMessages :
                     /\ ~msg.closed
                     /\ msg.word \in {endiannessToken, swappedEndiannessToken}
                     /\ ClientMessageCallback(i, msg)
             \/ /\ clients[i].state = INTRA
                /\ clients'[j].state = INTER
                /\ commPc = "broadcast"
                /\ Len(sentLog'[clients[i].id]) = Len(sentLog[clients[i].id]) + 1
                /\ LastSent(sentLog', clients[i].id).coding = "intra"
        /\ \/ commPc # "dispatch"
           \/ \A i \in 1..Len(clients) : \A msg \in TokenMessages :
                \/ clients[i].state = START
                \/ msg.closed
                \/ ReadUInt16(msg.word, clients[i].swapOnRead) # 0
                \/ \E j \in 1..Len(clients') :
                     /\ clients'[j].id = clients[i].id
                     /\ clients'[j].state = clients[i].state
                \/ ~ClientMessageCallback(i, msg)
        /\ \A j \in 1..Len(clients') :
             clients'[j].id \in Ids(clients) \/ clients'[j].state = START
        /\ \A i \in 1..Len(clients) :
             \/ clients[i].id \in Ids(clients')
             \/ \E msg \in MessagesOf(i) :
                  /\ HandleMessage(clients[i], numClients, msg).thrown
                  /\ ClientMessageCallback(i, msg)
             \/ \E fails \in SUBSET ClientIds :
                  clients[i].id \in fails /\ CommunicationThreadBroadcast(fails)]_vars

\* A client went from START over INTRA to INTER and sent a position update,
\* and another client was disconnected.
StateOnlyAdvancesWitness ==
  /\ \E i \in 1..Len(clients) :
       /\ clients[i].state = INTER
       /\ clients[i].position # Unset
       /\ sentLog[clients[i].id] # <<>>
  /\ departed.reason \in {"violation", "sendFailure"}

\* C9: in a broadcast cycle in which the sends to the clients in fails fail,
\* every other client in INTRA or INTER at the start of the cycle is sent the
\* triplet of this cycle, and at the end of the cycle exactly the clients in
\* fails have left the list.
BroadcastSurvivesFailure ==
  [][\A fails \in SUBSET ClientIds :
       CommunicationThreadBroadcast(fails) =>
         /\ Ids(clients') = Ids(clients) \ fails
         /\ Len(clients') = Len(clients) - Cardinality(fails)
         /\ \A id \in Streaming(clients) \ fails :
              /\ Len(sentLog'[id]) = Len(sentLog[id]) + 1
              /\ LastSent(sentLog', id).cycle = numBroadcasts'
              /\ LastSent(sentLog', id).grid = quantized'[currentGrid']
              /\ ClientById(clients', id).state = INTER
         /\ \A id \in Ids(clients) \ Streaming(clients) :
              /\ ClientById(clients', id) = ClientById(clients, id)
              /\ sentLog'[id] = sentLog[id]
         /\ \A id \in fails : sentLog'[id] = sentLog[id]]_vars

\* In the first broadcast cycle the send to the first client failed and the
\* second client was sent its triplet.
BroadcastSurvivesFailureWitness ==
  /\ numBroadcasts = 1
  /\ departed = [id |-> 1, reason |-> "sendFailure"]
  /\ \E i \in 1..Len(clients) :
       /\ clients[i].id = 2
       /\ clients[i].state = INTER
       /\ Len(sentLog[2]) = 1

\* A protocol violation: a bad handshake ack in START, or a message token
\* other than 0 in INTRA or INTER
Violation(client, msg) ==
  /\ ~msg.closed
  /\ IF client.state = START
     THEN msg.word \notin {endiannessToken, swappedEndiannessToken}
     ELSE ReadUInt16(msg.word, client.swapOnRead) # 0

\* C10: a protocol violation of a client removes exactly that client from
\* the list; every other client stays in the list with the state, byte-swap
\* setting, position and direction it had, and keeps its listener; the
\* listening socket keeps its listener and the communication thread goes on.
ViolationRemovesOnlyOffender ==
  [][\A i \in 1..Len(clients) : \A msg \in MessagesOf(i) :
       (Violation(clients[i], msg) /\ ClientMessageCallback(i, msg)) =>
         /\ Ids(clients') = Ids(clients) \ {clients[i].id}
         /\ Len(clients') = Len(clients) - 1
         /\ \A id \in Ids(clients') : ClientById(clients', id) = ClientById(clients, id)
         /\ listeners' = listeners \ {clients[i].id}
         /\ listenKey \in listeners'
         /\ commPc' \in {"dispatch", "broadcast"}]_vars

\* A streaming client was disconnected for a message with a token other than
\* 0, and another client, with swap-on-read and a position set, is still on
\* the list.
ViolationRemovesOnlyOffenderWitness ==
  /\ departed.reason = "violation"
  /\ ackedAt[departed.id] # NoAck
  /\ \E i \in 1..Len(clients) :
       /\ clients[i].state >= INTRA
       /\ clients[i].swapOnRead
       /\ clients[i].position # Unset

-----------------------------------------------------------------------------
(* The grid handoff: the simulation side (frame, the grid request,         *)
(* readBackCallback) and the communication thread, from the state in which  *)
(* one client has completed its handshake.                                  *)

\* The grid triplets requested in the handoff specification
MaxGridTriplets == 3

\* The server after newConnectionCallback and a valid ack of one client
InitGrids ==
  /\ BitInit
  /\ LogIdle
  /\ HuffIdle
  /\ CodecIdle
  /\ clients = <<[NewClient(1) EXCEPT !.state = INTRA]>>
  /\ numClients = 1
  /\ listeners = {listenKey, 1}
  /\ numConnections = 1
  /\ commPc = "dispatch"
  /\ clientPositions \in {Positions(clients, garbage) : garbage \in UninitialisedWords}
  /\ currentGrid = 1
  /\ quantized = [g \in 0..1 |-> [version |-> 0, pixel |-> Unset]]
  /\ gridsBuffer = [slot \in 0..2 |-> [version |-> 0, elevation |-> Unset]]
  /\ gridsLocked = 0
  /\ gridsMostRecent = 0
  /\ gridsNext = 0
  /\ requestSlot = NoSlot
  /\ numTriplets = 0
  /\ numBroadcasts = 0
  /\ sentLog = [id \in ClientIds |-> <<>>]
  /\ ackedAt = [id \in ClientIds |-> IF id = 1 THEN 0 ELSE NoAck]
  /\ departed = [id |-> 0, reason |-> "no"]
  /\ shutdownPc = "running"

\* RemoteServer::frame in the handoff specification
GridsFrame(due) == FrameWithin(due, MaxGridTriplets)

NextGrids ==
  \/ \E due \in BOOLEAN :
       GridsFrame(due) /\ UNCHANGED <<bitVars, logVars, huffVars, codecVars, shutdownPc>>
  \/ ReadBackCallback /\ UNCHANGED <<bitVars, logVars, huffVars, codecVars, shutdownPc>>
  \/ Interrupted /\ UNCHANGED <<bitVars, logVars, huffVars, codecVars, shutdownPc>>
  \/ \E i \in 1..Len(clients) : \E msg \in MessagesOf(i) :
       ClientMessageCallback(i, msg) /\ UNCHANGED <<bitVars, logVars, huffVars, codecVars, shutdownPc>>
  \/ \E fails \in SUBSET ClientIds :
       CommunicationThreadBroadcast(fails)
         /\ UNCHANGED <<bitVars, logVars, huffVars, codecVars, shutdownPc>>

SpecGrids == InitGrids /\ [][NextGrids]_vars

\* C11: the slot the communication thread has locked is never the slot the
\* active grid request fills, it never holds a partly written triplet, and
\* no partly written triplet was ever quantized.
ReaderNeverSeesPartial ==
  /\ requestSlot # NoSlot => gridsLocked # requestSlot
  /\ gridsBuffer[gridsLocked].version # Partial
  /\ \A g \in 0..1 : quantized[g].version # Partial

\* The communication thread has locked a triplet and is about to quantize
\* it while a grid request fills another slot, and it locked while the
\* request was active.
ReaderNeverSeesPartialWitness ==
  /\ requestSlot # NoSlot
  /\ commPc = "broadcast"
  /\ gridsBuffer[requestSlot].version = Partial
  /\ gridsBuffer[gridsLocked].version = numTriplets
  /\ numTriplets >= 2

\* C12: when the communication thread locks a new triplet it is the one
\* posted last, it is newer than the one locked before, and the triplets
\* quantized for broadcast are in the order of their production.
LatestWins ==
  [][/\ (commPc = "dispatch" /\ commPc' = "broadcast") =>
          /\ gridsBuffer'[gridsLocked'].version = numTriplets'
          /\ gridsBuffer'[gridsLocked'].version > gridsBuffer[gridsLocked].version
     /\ (commPc = "broadcast" /\ commPc' = "dispatch") =>
          quantized'[currentGrid'].version > quantized[currentGrid].version]_vars

-----------------------------------------------------------------------------
(* The server under fair scheduling: two clients are connected and have     *)
(* not sent their ack; the main thread keeps calling frame, a grid          *)
(* request that was taken is read back, the dispatcher wakes the            *)
(* communication thread when a triplet was posted, and the communication    *)
(* thread runs the broadcast cycle it has started.                          *)

\* The grid triplets requested in the fair specification
MaxFairTriplets == 1

\* The server after newConnectionCallback for two clients
InitFair ==
  /\ BitInit
  /\ LogIdle
  /\ HuffIdle
  /\ CodecIdle
  /\ clients = <<NewClient(1), NewClient(2)>>
  /\ numClients = 0
  /\ listeners = {listenKey, 1, 2}
  /\ numConnections = 2
  /\ commPc = "dispatch"
  /\ clientPositions = <<>>
  /\ currentGrid = 1
  /\ quantized = [g \in 0..1 |-> [version |-> 0, pixel |-> Unset]]
  /\ gridsBuffer = [slot \in 0..2 |-> [version |-> 0, elevation |-> Unset]]
  /\ gridsLocked = 0
  /\ gridsMostRecent = 0
  /\ gridsNext = 0
  /\ requestSlot = NoSlot
  /\ numTriplets = 0
  /\ numBroadcasts = 0
  /\ sentLog = [id \in ClientIds |-> <<>>]
  /\ ackedAt = [id \in ClientIds |-> NoAck]
  /\ departed = [id |-> 0, reason |-> "no"]
  /\ shutdownPc = "running"

\* RemoteServer::frame in the fair specification
FairFrame(due) ==
  FrameWithin(due, MaxFairTriplets) /\ UNCHANGED <<bitVars, logVars, huffVars, codecVars, shutdownPc>>

\* readBackCallback in the fair specification
FairReadBack == ReadBackCallback /\ UNCHANGED <<bitVars, logVars, huffVars, codecVars, shutdownPc>>

\* The dispatcher woken in the fair specification
FairInterrupted == Interrupted /\ UNCHANGED <<bitVars, logVars, huffVars, codecVars, shutdownPc>>

\* The broadcast cycle in the fair specification
FairBroadcast ==
  \E fails \in SUBSET ClientIds :
    CommunicationThreadBroadcast(fails) /\ UNCHANGED <<bitVars, logVars, huffVars, codecVars, shutdownPc>>

NextFair ==
  \/ \E due \in BOOLEAN : FairFrame(due)
  \/ FairReadBack
  \/ FairInterrupted
  \/ \E i \in 1..Len(clients) : \E msg \in MessagesOf(i) :
       ClientMessageCallback(i, msg) /\ UNCHANGED <<bitVars, logVars, huffVars, codecVars, shutdownPc>>
  \/ FairBroadcast

SpecFair ==
  /\ InitFair
  /\ [][NextFair]_vars
  /\ WF_vars(FairFrame(TRUE))
  /\ WF_vars(FairReadBack)
  /\ WF_vars(FairInterrupted /\ gridsLocked # gridsMostRecent)
  /\ WF_vars(FairBroadcast)

\* The client of a connection is on the list in the given state
InState(id, state) ==
  \E i \in 1..Len(clients) : clients[i].id = id /\ clients[i].state = state

\* C13: a client that has completed its handshake while the simulation has
\* a triplet to publish or has published one that was not broadcast yet is
\* eventually sent an intra-coded triplet and is in INTER, unless it leaves
\* the client list (closed connection, protocol violation, failed send).
HandshakenClientReachesInter ==
  \A id \in ClientIds :
    (/\ InState(id, INTRA)
     /\ \/ numTriplets < MaxFairTriplets
        \/ gridsLocked # gridsMostRecent
        \/ commPc = "broadcast")
      ~> (\/ /\ InState(id, INTER)
             /\ sentLog[id] # <<>>
             /\ sentLog[id][1].coding = "intra"
          \/ id \notin Ids(clients))

\* A client is in INTER after its intra-coded triplet, and another client
\* was disconnected for an invalid ack.
HandshakenClientReachesInterWitness ==
  /\ \E id \in ClientIds :
       /\ InState(id, INTER)
       /\ Len(sentLog[id]) = 1
       /\ sentLog[id][1].coding = "intra"
  /\ departed.reason = "violation"
  /\ ackedAt[departed.id] = NoAck

-----------------------------------------------------------------------------
(* Shutdown: ~RemoteServer stops the dispatcher and joins the communication *)
(* thread, whose loop ends when dispatchNextEvent returns false.  The       *)
(* communication thread's iteration is taken in two steps here, the return  *)
(* of dispatchNextEvent and the loop body, with one client streaming.       *)

\* dispatcher.stop() was called
StopRequested == shutdownPc # "running"

\* ~RemoteServer: dispatcher.stop(), after which the main thread waits in
\* communicationThread.join()
Shutdown ==
  /\ shutdownPc = "running"
  /\ commPc # "idle"
  /\ shutdownPc' = "joining"
  /\ UNCHANGED <<bitVars, logVars, huffVars, codecVars, clients, numClients, listeners,
                 numConnections, commPc, clientPositions, currentGrid, quantized,
                 gridsBuffer, gridsLocked, gridsMostRecent, gridsNext, requestSlot,
                 numTriplets, numBroadcasts, sentLog, ackedAt, departed>>

\* communicationThreadMethod: dispatchNextEvent returns true after an
\* interrupt, and the loop body is entered
Woken ==
  /\ commPc = "dispatch"
  /\ ~StopRequested
  /\ commPc' = "woken"
  /\ UNCHANGED <<bitVars, logVars, huffVars, codecVars, clients, numClients, listeners,
                 numConnections, clientPositions, currentGrid, quantized,
                 gridsBuffer, gridsLocked, gridsMostRecent, gridsNext, requestSlot,
                 numTriplets, numBroadcasts, sentLog, ackedAt, departed, shutdownPc>>

\* communicationThreadMethod: the loop body up to grids.lockNewValue
LoopBody ==
  /\ commPc = "woken"
  /\ CommunicationThreadPositions(clients)
  /\ UNCHANGED <<bitVars, logVars, huffVars, codecVars, clients, numClients, listeners,
                 numConnections, currentGrid, quantized, gridsBuffer, gridsMostRecent,
                 gridsNext, requestSlot, numTriplets, numBroadcasts, sentLog, ackedAt,
                 departed, shutdownPc>>

\* The broadcast cycle of the iteration in progress
ShutdownBroadcast ==
  \E fails \in SUBSET ClientIds :
    CommunicationThreadBroadcast(fails)
      /\ UNCHANGED <<bitVars, logVars, huffVars, codecVars, shutdownPc>>

\* The loop that goes on after the dispatcher was stopped
DispatchStoppedGoesOn ==
  /\ commPc = "dispatch"
  /\ StopRequested
  /\ commPc' = "woken"
  /\ UNCHANGED <<bitVars, logVars, huffVars, codecVars, clients, numClients, listeners,
                 numConnections, clientPositions, currentGrid, quantized,
                 gridsBuffer, gridsLocked, gridsMostRecent, gridsNext, requestSlot,
                 numTriplets, numBroadcasts, sentLog, ackedAt, departed, shutdownPc>>

\* communicationThreadMethod: dispatchNextEvent returns false, the loop
\* ends and the thread returns
DispatchStopped ==
  /\ commPc = "dispatch"
  /\ StopRequested
  /\ commPc' = "done"
  /\ UNCHANGED <<bitVars, logVars, huffVars, codecVars, clients, numClients, listeners,
                 numConnections, clientPositions, currentGrid, quantized,
                 gridsBuffer, gridsLocked, gridsMostRecent, gridsNext, requestSlot,
                 numTriplets, numBroadcasts, sentLog, ackedAt, departed, shutdownPc>>

\* ~RemoteServer: communicationThread.join() returns and the clients are
\* deleted
Join ==
  /\ shutdownPc = "joining"
  /\ commPc = "done"
  /\ shutdownPc' = "joined"
  /\ clients' = <<>>
  /\ UNCHANGED <<bitVars, logVars, huffVars, codecVars, numClients, listeners,
                 numConnections, commPc, clientPositions, currentGrid, quantized,
                 gridsBuffer, gridsLocked, gridsMostRecent, gridsNext, requestSlot,
                 numTriplets, numBroadcasts, sentLog, ackedAt, departed>>

\* RemoteServer::frame while the server is not being destroyed
ShutdownFrame(due) ==
  /\ ~StopRequested
  /\ GridsFrame(due)
  /\ UNCHANGED <<bitVars, logVars, huffVars, codecVars, shutdownPc>>

\* readBackCallback for a request taken before the server was destroyed
ShutdownReadBack ==
  /\ shutdownPc # "joined"
  /\ ReadBackCallback
  /\ UNCHANGED <<bitVars, logVars, huffVars, codecVars, shutdownPc>>

\* clientMessageCallback while the dispatcher is not stopped
ShutdownClientMessage ==
  /\ ~StopRequested
  /\ \E i \in 1..Len(clients) : \E msg \in MessagesOf(i) :
       ClientMessageCallback(i, msg)
  /\ UNCHANGED <<bitVars, logVars, huffVars, codecVars, shutdownPc>>

NextShutdown ==
  \/ \E due \in BOOLEAN : ShutdownFrame(due)
  \/ ShutdownReadBack
  \/ ShutdownClientMessage
  \/ Woken
  \/ LoopBody
  \/ ShutdownBroadcast
  \/ Shutdown
  \/ DispatchStopped
  \/ Join

SpecShutdown ==
  /\ InitGrids
  /\ [][NextShutdown]_vars
  /\ WF_vars(LoopBody)
  /\ WF_vars(ShutdownBroadcast)
  /\ WF_vars(DispatchStopped)
  /\ WF_vars(Join)

\* C14 as stated: once the dispatcher was asked to stop, no broadcast cycle
\* begins, that is lockNewValue does not return true in the loop.
NoBroadcastBeginsAfterStop ==
  [][StopRequested => (commPc' = "broadcast" => commPc = "broadcast")]_vars

\* C14: once the dispatcher was asked to stop, the communication thread
\* enters its loop body no more; the iteration in progress goes on to its
\* end, with the broadcast cycle if lockNewValue returns true in it; then
\* the loop ends, the thread is done for good, and the join returns.
StopEndsLoopAfterIteration ==
  /\ [][StopRequested =>
          /\ commPc = "dispatch" => commPc' \in {"dispatch", "done"}
          /\ commPc = "woken" => commPc' \in {"woken", "broadcast", "dispatch"}
          /\ commPc = "broadcast" => commPc' \in {"broadcast", "dispatch"}
          /\ commPc = "done" => commPc' = "done"
          /\ numBroadcasts' # numBroadcasts => commPc = "broadcast"]_vars
  /\ StopRequested ~> (commPc = "done" /\ shutdownPc = "joined")

\* The dispatcher was asked to stop, the main thread waits in the join, and
\* the iteration in progress has locked a new triplet that it is about to
\* broadcast to a streaming client.
StopEndsLoopAfterIterationWitness ==
  /\ shutdownPc = "joining"
  /\ commPc = "broadcast"
  /\ gridsBuffer[gridsLocked].version >= 1
  /\ \E i \in 1..Len(clients) : clients[i].state >= INTRA

-----------------------------------------------------------------------------
(* The bit sink specification: a writer hands BitSink::write values whose    *)
(* bits above the width may be set, and flushes.                            *)

\* What the bits of a value above its width are
HighBits == {"clear", "set"}

\* The value of pattern p and width w with the bits above the width as given
AnyValue(p, w, high) ==
  [i \in BitIndex |-> IF i <= maxNumBits - w
                      THEN (IF high = "set" THEN 1 ELSE 0)
                      ELSE Value(p, w)[i]]

InitBitSink ==
  /\ BitInit
  /\ HuffIdle
  /\ ServerIdle
  /\ CodecIdle
  /\ written = <<>>
  /\ readValues = <<>>
  /\ phase = "sink"

\* BitSink::write(value, width)
WriteAny(p, width, high) ==
  /\ phase = "sink"
  /\ Len(written) < MaxWrites
  /\ \E s \in {SinkWrite(TheSink, AnyValue(p, width, high), width, wide) :
                 wide \in WideShiftOutcomes} :
       SetSink(s)
  /\ written' = Append(written, <<p, width, high>>)
  /\ UNCHANGED <<filePos, sourceBuffer, usedBits, readValues, phase>>

\* BitSink::flush() at the end of the stream
FlushSink ==
  /\ phase = "sink"
  /\ written # <<>>
  /\ \E s \in {SinkFlush(TheSink, wide) : wide \in WideShiftOutcomes} : SetSink(s)
  /\ phase' = "flushed"
  /\ UNCHANGED <<filePos, sourceBuffer, usedBits, written, readValues>>

NextBitSink ==
  \/ \E w \in Widths, p \in Patterns, high \in HighBits :
       WriteAny(p, w, high) /\ UNCHANGED <<huffVars, codecVars, serverVars>>
  \/ FlushSink /\ UNCHANGED <<huffVars, codecVars, serverVars>>

SpecBitSink == InitBitSink /\ [][NextBitSink]_vars

\* The sink after the first k values of a log were written with the bits
\* above their widths clear
RECURSIVE LowBitsWritten(_, _)
LowBitsWritten(log, k) ==
  IF k = 0 THEN NewSink(<<>>)
  ELSE SinkWrite(LowBitsWritten(log, k - 1), Value(log[k][1], log[k][2]), log[k][2],
                 "masked")

\* The bits of a register that are in use
UsedPart(s) == [i \in BitIndex |-> IF i > s.freeBits THEN s.buffer[i] ELSE 0]

\* C15 as stated: what write leaves in the used part of the register and
\* what it sends to the transport are what the low numBits bits of each
\* value give, whatever the bits of the values above numBits.
WriteAppendsLowBitsOnly ==
  LET low == LowBitsWritten(written, Len(written))
      expected == IF phase = "flushed" THEN SinkFlush(low, "masked") ELSE low
  IN phase \in {"sink", "flushed"} =>
       /\ file = expected.file
       /\ freeBits = expected.freeBits
       /\ UsedPart(TheSink) = UsedPart(expected)

-----------------------------------------------------------------------------
(* The flushed stream specification: the writer may flush once in the       *)
(* middle of the stream, after any number of values, and the reader flushes *)
(* at the same place.  The log holds the values and the place of the flush. *)

\* Number of values of a flushed stream
MaxFlushWrites == 2

\* The values of a flushed stream: alternating bits, of every width
StreamPatterns == {"alt"}

\* The log entry of a flush
FlushMark == <<"flush", 0>>

IsFlushMark(entry) == entry[1] = "flush"

\* The stream was flushed in the middle already
MidFlushed(log) == \E k \in 1..Len(log) : IsFlushMark(log[k])

\* The number of values of a log
NumValues(log) == Cardinality({k \in 1..Len(log) : ~IsFlushMark(log[k])})

InitFlushed ==
  /\ BitInit
  /\ HuffIdle
  /\ ServerIdle
  /\ CodecIdle
  /\ written = <<>>
  /\ readValues = <<>>
  /\ phase = "write"

\* BitSink::write(value, width)
StreamWrite(p, width) ==
  /\ phase = "write"
  /\ NumValues(written) < MaxFlushWrites
  /\ \E s \in {SinkWrite(TheSink, Value(p, width), width, wide) : wide \in WideShiftOutcomes} :
       SetSink(s)
  /\ written' = Append(written, <<p, width>>)
  /\ UNCHANGED <<filePos, sourceBuffer, usedBits, readValues, phase>>

\* BitSink::flush() in the middle of the stream
StreamFlush ==
  /\ phase = "write"
  /\ ~MidFlushed(written)
  /\ \E s \in {SinkFlush(TheSink, wide) : wide \in WideShiftOutcomes} : SetSink(s)
  /\ written' = Append(written, FlushMark)
  /\ UNCHANGED <<filePos, sourceBuffer, usedBits, readValues, phase>>

\* BitSink::~BitSink(): the flush at the end of the stream, once all its
\* values are written
StreamClose ==
  /\ phase = "write"
  /\ NumValues(written) = MaxFlushWrites
  /\ \E s \in {SinkFlush(TheSink, wide) : wide \in WideShiftOutcomes} : SetSink(s)
  /\ phase' = "read"
  /\ UNCHANGED <<filePos, sourceBuffer, usedBits, written, readValues>>

\* BitSource::read(width) of the next value
StreamRead ==
  /\ phase = "read"
  /\ Len(readValues) < Len(written)
  /\ LET entry == written[Len(readValues) + 1]
     IN /\ ~IsFlushMark(entry)
        /\ SourceCanRead(TheSource, entry[2])
        /\ \E res \in {SourceRead(TheSource, entry[2], wide) : wide \in WideShiftOutcomes} :
             /\ readValues' = Append(readValues, res[1])
             /\ SetSource(res[2])
  /\ UNCHANGED <<sinkBuffer, freeBits, file, written, phase>>

\* BitSource::flush() where the writer flushed
StreamSourceFlush ==
  /\ phase = "read"
  /\ Len(readValues) < Len(written)
  /\ IsFlushMark(written[Len(readValues) + 1])
  /\ SetSource(SourceFlush(TheSource))
  /\ readValues' = Append(readValues, Zero32)
  /\ UNCHANGED <<sinkBuffer, freeBits, file, written, phase>>

NextFlushed ==
  \/ \E w \in Widths, p \in StreamPatterns :
       StreamWrite(p, w) /\ UNCHANGED <<huffVars, codecVars, serverVars>>
  \/ StreamFlush /\ UNCHANGED <<huffVars, codecVars, serverVars>>
  \/ StreamClose /\ UNCHANGED <<huffVars, codecVars, serverVars>>
  \/ StreamRead /\ UNCHANGED <<huffVars, codecVars, serverVars>>
  \/ StreamSourceFlush /\ UNCHANGED <<huffVars, codecVars, serverVars>>

SpecFlushed == InitFlushed /\ [][NextFlushed]_vars

-----------------------------------------------------------------------------
\* C16: when the writer flushes after its k-th value and the reader flushes
\* after reading its k-th value, every value of the stream, those written
\* after the flush included, is read back as written, whatever k and the
\* fill level of the register at the flush.
FlushKeepsLaterValues ==
  \A k \in 1..Len(readValues) :
    ~IsFlushMark(written[k]) => readValues[k] = Value(written[k][1], written[k][2])

\* A value was written into a partly filled register, the stream was flushed,
\* another value was written, and both were read back with the reader's flush
\* between them.
FlushKeepsLaterValuesWitness ==
  /\ phase = "read"
  /\ Len(written) = 3
  /\ Len(readValues) = 3
  /\ ~IsFlushMark(written[1])
  /\ written[1][2] \in 2..(maxNumBits - 1)
  /\ IsFlushMark(written[2])
  /\ ~IsFlushMark(written[3])
  /\ Len(file) = 2
  /\ filePos = 2

-----------------------------------------------------------------------------
(* The deep tree specification: leaves are added with frequencies that grow *)
(* fast enough for buildTree to hang every leaf but the first below its own *)
(* interior node, so that the first leaf's code has one bit less than there *)
(* are leaves; the caller then builds the codebook.                         *)

\* Number of leaves of the deepest tree: its longest code has one bit more
\* than maxNumBits
MaxChainLeaves == 34

\* The frequency of the next leaf: 1, 2, and then the sum of the last two,
\* which is above the sum of all the leaves before the last
ChainFrequency(nodes) ==
  IF Len(nodes) < 2 THEN Len(nodes) + 1
  ELSE nodes[Len(nodes)].frequency + nodes[Len(nodes) - 1].frequency

\* The tables the caller holds from an earlier builder of one leaf
EarlierCodebook == BuildEncodingCodebook(<<LeafCodeNode(1)>>, 1)

EarlierDecodingTree == BuildDecodingTree(<<LeafCodeNode(1)>>, 1)

InitDeep ==
  /\ BitInit
  /\ LogIdle
  /\ CodecIdle
  /\ ServerIdle
  /\ codeNodes = <<>>
  /\ numLeaves = 0
  /\ nodeSorter = {}
  /\ builderPc = "add"
  /\ \E earlier \in BOOLEAN :
       /\ codebook = IF earlier THEN EarlierCodebook ELSE NoCodebook
       /\ decodingTree = IF earlier THEN EarlierDecodingTree ELSE <<>>

\* addLeaf(frequency) with the next frequency of the chain
AddChainLeaf ==
  /\ builderPc = "add"
  /\ numLeaves < MaxChainLeaves
  /\ codeNodes' = Append(codeNodes, LeafCodeNode(ChainFrequency(codeNodes)))
  /\ numLeaves' = numLeaves + 1
  /\ UNCHANGED <<nodeSorter, builderPc, codebook, decodingTree>>

\* The caller's buildEncodingCodebook() on the built tree: the caller keeps
\* the array returned, or is left with what it had when the call throws
CallBuildEncodingCodebook ==
  /\ builderPc = "built"
  /\ LET result == BuildEncodingCodebook(codeNodes, numLeaves)
     IN IF result.thrown
        THEN /\ builderPc' = "thrown"
             /\ UNCHANGED codebook
        ELSE /\ builderPc' = "tables"
             /\ codebook' = result
  /\ UNCHANGED <<codeNodes, numLeaves, nodeSorter, decodingTree>>

NextDeep ==
  \/ AddChainLeaf /\ UNCHANGED <<bitVars, logVars, codecVars, serverVars>>
  \/ BuildTreeStart /\ UNCHANGED <<bitVars, logVars, codecVars, serverVars>>
  \/ BuildTreeMerge /\ UNCHANGED <<bitVars, logVars, codecVars, serverVars>>
  \/ BuildTreeEnd /\ UNCHANGED <<bitVars, logVars, codecVars, serverVars>>
  \/ CallBuildEncodingCodebook /\ UNCHANGED <<bitVars, logVars, codecVars, serverVars>>

SpecDeep == InitDeep /\ [][NextDeep]_vars

\* The number of edges from node nodeIndex down to the given leaf, following
\* the child indices; -1 when the leaf is not below the node
RECURSIVE DepthBelow(_, _, _, _)
DepthBelow(nodes, n, nodeIndex, leaf) ==
  IF nodeIndex < n
  THEN IF nodeIndex = leaf THEN 0 ELSE -1
  ELSE LET left == DepthBelow(nodes, n, nodes[nodeIndex + 1].childIndices[1], leaf)
           right == DepthBelow(nodes, n, nodes[nodeIndex + 1].childIndices[2], leaf)
       IN IF left >= 0 THEN left + 1 ELSE IF right >= 0 THEN right + 1 ELSE -1

\* The length of the code of a leaf: its depth below the root
CodeLength(nodes, n, leaf) == DepthBelow(nodes, n, Len(nodes) - 1, leaf)

-----------------------------------------------------------------------------
\* C17: buildEncodingCodebook throws, and returns no table, exactly when the
\* code of some leaf is longer than maxNumBits (32) bits; a call that throws
\* leaves the code creation tree and the codebook and decoding tree the
\* caller held as they were, and a call that returns gives
\* every leaf a code of the length of its path.
CodebookFailsIffOversized ==
  [][(builderPc = "built" /\ builderPc' # "built") =>
       /\ (builderPc' = "thrown") <=>
            (\E i \in 0..(numLeaves - 1) : CodeLength(codeNodes, numLeaves, i) > maxNumBits)
       /\ builderPc' = "thrown" =>
            /\ codeNodes' = codeNodes
            /\ numLeaves' = numLeaves
            /\ codebook' = codebook
            /\ decodingTree' = decodingTree
       /\ builderPc' = "tables" =>
            /\ ~codebook'.thrown
            /\ Len(codebook'.codes) = numLeaves
            /\ \A i \in 1..numLeaves :
                 codebook'.codes[i].numBits = CodeLength(codeNodes, numLeaves, i - 1)]_vars

\* The call threw on a tree whose longest code has 33 bits, with the earlier
\* codebook and decoding tree in the caller's hands.
CodebookFailsIffOversizedWitness ==
  /\ builderPc = "thrown"
  /\ numLeaves = maxNumBits + 2
  /\ CodeLength(codeNodes, numLeaves, 0) = maxNumBits + 1
  /\ codebook = EarlierCodebook
  /\ decodingTree = EarlierDecodingTree

-----------------------------------------------------------------------------
(* The tree specification: leaves of frequencies that tie with each other  *)
(* and with the sums of others are added, and buildTree builds the tree.    *)

\* The frequencies of the leaves: a leaf never seen, and frequencies for which
\* a merged node can tie with a leaf
LeafFrequencies == {0, 1, 2}

NextTree ==
  \/ \E f \in LeafFrequencies :
       AddLeaf(f) /\ UNCHANGED <<bitVars, logVars, codecVars, serverVars>>
  \/ BuildTreeStart /\ UNCHANGED <<bitVars, logVars, codecVars, serverVars>>
  \/ BuildTreeMerge /\ UNCHANGED <<bitVars, logVars, codecVars, serverVars>>
  \/ BuildTreeEnd /\ UNCHANGED <<bitVars, logVars, codecVars, serverVars>>

SpecTree == InitHuffman /\ [][NextTree]_vars

\* The nodes of the code creation tree that have no parent yet
Parentless(nodes) == {i \in 0..(Len(nodes) - 1) : nodes[i + 1].parentChildIndex = 2}

\* The sum of frequency times code length, for the code lengths len[1..n]
RECURSIVE WeightedLength(_, _, _)
WeightedLength(nodes, len, k) ==
  IF k = 0 THEN 0
  ELSE WeightedLength(nodes, len, k - 1) + nodes[k].frequency * len[k]

\* Kraft's inequality: the sum of 2^-len[i] is at most 1, which the code
\* lengths of every prefix-free code satisfy and which suffices for a
\* prefix-free code of these lengths to exist
RECURSIVE KraftSum(_, _, _)
KraftSum(len, k, max) ==
  IF k = 0 THEN 0 ELSE KraftSum(len, k - 1, max) + 2 ^ (max - len[k])

\* The code lengths of the prefix-free codes for n leaves whose codes have
\* fewer than n bits, as those of every tree with n leaves have
PrefixFreeLengthsOf ==
  [n \in 1..MaxLeaves |->
     {len \in [1..n -> 0..(n - 1)] : KraftSum(len, n, n) <= 2 ^ n}]

PrefixFreeLengths(n) == PrefixFreeLengthsOf[n]

\* The code lengths of the built tree
BuiltLengths == [i \in 1..numLeaves |-> CodeLength(codeNodes, numLeaves, i - 1)]

\* Interior node p was made by merging two of the lowest-frequency nodes that
\* had no parent then: the nodes before p whose parent is not before p
MergedTwoLowest(nodes, p) ==
  LET c0 == nodes[p + 1].childIndices[1]
      c1 == nodes[p + 1].childIndices[2]
      remaining == {i \in 0..(p - 1) :
                      nodes[i + 1].parentChildIndex = 2 \/ nodes[i + 1].parent >= p}
  IN /\ c0 # c1
     /\ {c0, c1} \subseteq remaining
     /\ nodes[c0 + 1].parentChildIndex < 2 /\ nodes[c0 + 1].parent = p
     /\ nodes[c1 + 1].parentChildIndex < 2 /\ nodes[c1 + 1].parent = p
     /\ \A other \in remaining \ {c0, c1} :
          /\ nodes[c0 + 1].frequency <= nodes[other + 1].frequency
          /\ nodes[c1 + 1].frequency <= nodes[other + 1].frequency
     /\ nodes[p + 1].frequency = nodes[c0 + 1].frequency + nodes[c1 + 1].frequency

\* C18: every pass of the loop of buildTree merges two lowest-frequency
\* remaining nodes under a new parent whose frequency is their sum; the loop
\* ends with one root, and the code lengths of the built tree have the least
\* sum of frequency times length among the lengths of all prefix-free codes
\* for the leaves.
BuildTreeIsMinimumRedundancy ==
  /\ builderPc \in {"build", "built"} =>
       \A p \in numLeaves..(Len(codeNodes) - 1) : MergedTwoLowest(codeNodes, p)
  /\ builderPc = "built" =>
       LET built == BuiltLengths
           weighted == WeightedLength(codeNodes, built, numLeaves)
       IN /\ Cardinality(Parentless(codeNodes)) = 1
          /\ Len(codeNodes) = 2 * numLeaves - 1
          /\ built \in PrefixFreeLengths(numLeaves)
          /\ \A len \in PrefixFreeLengths(numLeaves) :
               weighted <= WeightedLength(codeNodes, len, numLeaves)

\* A tree was built for four leaves of frequencies 2, 1, 0 and 0, whose codes
\* have one, two and three bits.
BuildTreeIsMinimumRedundancyWitness ==
  /\ builderPc = "built"
  /\ numLeaves = 4
  /\ [i \in 1..4 |-> codeNodes[i].frequency] = <<2, 1, 0, 0>>
  /\ BuiltLengths = <<1, 2, 3, 3>>

-----------------------------------------------------------------------------
(* The prediction error specification: one prediction error, any of the     *)
(* 65536 values of a pixel, is encoded by the intra-frame compressor, the   *)
(* encoder is flushed, and the error is decoded from the stream.            *)

InitError ==
  /\ BitInit
  /\ LogIdle
  /\ HuffIdle
  /\ ServerIdle
  /\ frameWidth = 1
  /\ frameHeight = 1
  /\ pixels0 \in {<<e>> : e \in 0..(PixelRange - 1)}
  /\ pixels1 = <<>>
  /\ decoded = <<>>
  /\ codecPc = "error"
  /\ zeroRunLength = 0

\* IntraFrameCompressor::encode(predictionError)
EncodeError ==
  /\ codecPc = "error"
  /\ \E s \in {IntraEncode(TheSink, intraFrameCompressorCodebook, pixels0[1], wide) :
                 wide \in WideShiftOutcomes} : SetSink(s)
  /\ codecPc' = "encoded"
  /\ UNCHANGED <<filePos, sourceBuffer, usedBits, frameWidth, frameHeight, pixels0,
                 pixels1, decoded, zeroRunLength>>

\* HuffmanEncoder::flush()
FlushError ==
  /\ codecPc = "encoded"
  /\ \E s \in {SinkFlush(TheSink, wide) : wide \in WideShiftOutcomes} : SetSink(s)
  /\ codecPc' = "flushed"
  /\ UNCHANGED <<filePos, sourceBuffer, usedBits, frameWidth, frameHeight, pixels0,
                 pixels1, decoded, zeroRunLength>>

\* decode() of the decompressor
DecodeError ==
  /\ codecPc = "flushed"
  /\ \E res \in {InterDecode(TheSource, intraFrameDecompressorTree, wide) :
                   wide \in WideShiftOutcomes} :
       /\ decoded' = <<res[1]>>
       /\ SetSource(res[2])
  /\ codecPc' = "done"
  /\ UNCHANGED <<sinkBuffer, freeBits, file, frameWidth, frameHeight, pixels0,
                 pixels1, zeroRunLength>>

NextError ==
  \/ EncodeError /\ UNCHANGED <<logVars, huffVars, serverVars>>
  \/ FlushError /\ UNCHANGED <<logVars, huffVars, serverVars>>
  \/ DecodeError /\ UNCHANGED <<logVars, huffVars, serverVars>>

SpecError == InitError /\ [][NextError]_vars

\* The signed value of a 16-bit wrapped prediction error
Signed(e) == IF e >= PixelRange \div 2 THEN e - PixelRange ELSE e

\* A sink in which nothing but the given symbol was encoded
SymbolOnly(symbol) ==
  {Encode(NewSink(<<>>), intraFrameCompressorCodebook, symbol, wide) :
     wide \in WideShiftOutcomes}

\* A sink in which the escape symbol and then the raw 16 bits were written
EscapeAndRaw(e) ==
  {WriteBits(Encode(NewSink(<<>>), intraFrameCompressorCodebook, 2 * codeMax + 1, wide),
             ToBits(e), numPixelBits, wide) : wide \in WideShiftOutcomes}

-----------------------------------------------------------------------------
\* C19: the intra encoder emits the symbol e+256 for a prediction error whose
\* signed value e lies in -256..256 and nothing else, the escape symbol 513
\* followed by the raw 16 bits of the error for every other error, and the
\* decoder's mapping returns the error encoded, for each of the 65536 errors.
EscapeIsExactInverse ==
  LET e == pixels0[1]
  IN /\ codecPc = "encoded" =>
          IF Signed(e) \in (-codeMax)..codeMax
          THEN /\ Signed(e) + codeMax \in 0..(2 * codeMax)
               /\ TheSink \in SymbolOnly(Signed(e) + codeMax)
          ELSE TheSink \in EscapeAndRaw(e)
     /\ codecPc = "done" => decoded = <<e>>

\* The least error above the direct range was escaped and decoded.
EscapeIsExactInverseWitness ==
  /\ codecPc = "done"
  /\ pixels0 = <<codeMax + 1>>
  /\ decoded = pixels0
  /\ filePos >= 1

-----------------------------------------------------------------------------
(* The predictor specification: three neighbour values are drawn from the   *)
(* bottom, the middle and the top of the 16-bit range, and the compressor's *)
(* and the decompressor's predictPaeth are applied to them.                 *)

\* Number of values above 0, around 32768 and below 65535 that are drawn
MaxNeighbourSpread == 3

NeighbourValues ==
  (0..MaxNeighbourSpread)
    \cup ((PixelRange \div 2 - 2)..(PixelRange \div 2 - 2 + MaxNeighbourSpread))
    \cup ((PixelRange - 1 - MaxNeighbourSpread)..(PixelRange - 1))

InitPredictor ==
  /\ BitInit
  /\ LogIdle
  /\ HuffIdle
  /\ ServerIdle
  /\ frameWidth = 0
  /\ frameHeight = 0
  /\ pixels0 \in {<<a, b, c>> : a \in NeighbourValues, b \in NeighbourValues,
                                c \in NeighbourValues}
  /\ pixels1 = <<>>
  /\ decoded = <<>>
  /\ codecPc = "neighbours"
  /\ zeroRunLength = 0

\* predictPaeth(a, b, c) in the compressor and in the decompressor
Predict ==
  /\ codecPc = "neighbours"
  /\ decoded' = <<predictPaeth(pixels0[1], pixels0[2], pixels0[3]),
                  predictPaethDecompressor(pixels0[1], pixels0[2], pixels0[3])>>
  /\ codecPc' = "predicted"
  /\ UNCHANGED <<frameWidth, frameHeight, pixels0, pixels1, zeroRunLength>>

NextPredictor == Predict /\ UNCHANGED <<bitVars, logVars, huffVars, serverVars>>

SpecPredictor == InitPredictor /\ [][NextPredictor]_vars

\* The distance of x to a + b - c, in the integers
Distance(a, b, c, x) == Abs(a + b - c - x)

-----------------------------------------------------------------------------
\* C20: predictPaeth returns the one of a, b and c nearest to a + b - c, taken
\* in the integers: a when neither b nor c is nearer than a, else b when c is
\* not nearer than b, else c; the compressor's and the decompressor's
\* predictors return the same value.
PaethPicksNearest ==
  codecPc = "predicted" =>
    LET a == pixels0[1]
        b == pixels0[2]
        c == pixels0[3]
        da == Distance(a, b, c, a)
        db == Distance(a, b, c, b)
        dc == Distance(a, b, c, c)
        nearest == IF da <= db /\ da <= dc THEN a
                   ELSE IF db <= dc THEN b ELSE c
    IN /\ decoded[1] = nearest
       /\ decoded[2] = decoded[1]
       /\ \A x \in {a, b, c} : Distance(a, b, c, decoded[1]) <= Distance(a, b, c, x)

\* a = 3 and c = 1 are equally near to a + b - c = 2, b = 0 is farther: a won.
PaethPicksNearestWitness ==
  /\ codecPc = "predicted"
  /\ pixels0 = <<3, 0, 1>>
  /\ decoded = <<3, 3>>

-----------------------------------------------------------------------------
(* The scan specification: the pointer arithmetic of the two intra-frame    *)
(* frame methods, with every pixel visited recorded together with the       *)
(* predictor used for it and the pixels read to predict it.  Pixel pPtr[k]  *)
(* is recorded as the offset pPtr + k from the start of the grid.           *)

\* Number of pixels of the largest grid scanned
MaxScanPixels == 16

Visit(pPtr, predictor, reads) == [pixel |-> pPtr, predictor |-> predictor, reads |-> reads]

\* compressFrame: the loop over the rest of the first row
RECURSIVE ScanFirstRow(_, _, _)
ScanFirstRow(v, pPtr, rowEnd) ==
  IF pPtr # rowEnd
  THEN ScanFirstRow(Append(v, Visit(pPtr, "previous", <<pPtr - 1>>)), pPtr + 1, rowEnd)
  ELSE v

\* compressFrame: the odd row loop taking the neighbour on the left, not yet
\* visited, as the horizontal neighbour
RECURSIVE ScanOddRowLeftNeighbour(_, _, _, _)
ScanOddRowLeftNeighbour(v, stride, pPtr, rowEnd) ==
  IF pPtr # rowEnd
  THEN ScanOddRowLeftNeighbour(
         Append(v, Visit(pPtr, "paeth", <<pPtr - 1, pPtr - stride, pPtr - stride + 1>>)),
         stride, pPtr - 1, rowEnd)
  ELSE v

\* compressFrame: the loop over the remaining pixels of an odd row
RECURSIVE ScanOddRow(_, _, _, _)
ScanOddRow(v, stride, pPtr, rowEnd) ==
  IF pPtr # rowEnd
  THEN ScanOddRow(Append(v, Visit(pPtr, "paeth",
                                  <<pPtr + 1, pPtr - stride, pPtr - stride + 1>>)),
                  stride, pPtr - 1, rowEnd)
  ELSE v

\* compressFrame: the loop over the remaining pixels of an even row
RECURSIVE ScanEvenRow(_, _, _, _)
ScanEvenRow(v, stride, pPtr, rowEnd) ==
  IF pPtr # rowEnd
  THEN ScanEvenRow(Append(v, Visit(pPtr, "paeth",
                                   <<pPtr - 1, pPtr - stride, pPtr - stride - 1>>)),
                   stride, pPtr + 1, rowEnd)
  ELSE v

\* compressFrame: the loop over the remaining rows with the odd row begun one
\* pixel further, at pPtr + stride
RECURSIVE ScanRowsOddRowShifted(_, _, _, _, _)
ScanRowsOddRowShifted(v, stride, height, y, pPtr) ==
  IF y < height
  THEN LET oddPtr == pPtr + stride
           oddEnd == oddPtr - stride
           v1 == Append(v, Visit(oddPtr, "above", <<oddPtr - stride>>))
           v2 == ScanOddRow(v1, stride, oddPtr - 1, oddEnd)
       IN IF y + 1 >= height
          THEN v2
          ELSE LET evenPtr == oddEnd + (stride + 1)
                   evenEnd == evenPtr + stride
                   v3 == Append(v2, Visit(evenPtr, "above", <<evenPtr - stride>>))
                   v4 == ScanEvenRow(v3, stride, evenPtr + 1, evenEnd)
               IN ScanRowsOddRowShifted(v4, stride, height, y + 2, evenEnd)
  ELSE v

\* compressFrame: the loop over the remaining rows
RECURSIVE ScanRows(_, _, _, _, _)
ScanRows(v, stride, height, y, pPtr) ==
  IF y < height
  THEN LET oddPtr == pPtr + (stride - 1)
           oddEnd == oddPtr - stride
           v1 == Append(v, Visit(oddPtr, "above", <<oddPtr - stride>>))
           v2 == ScanOddRow(v1, stride, oddPtr - 1, oddEnd)
       IN IF y + 1 >= height
          THEN v2
          ELSE LET evenPtr == oddEnd + (stride + 1)
                   evenEnd == evenPtr + stride
                   v3 == Append(v2, Visit(evenPtr, "above", <<evenPtr - stride>>))
                   v4 == ScanEvenRow(v3, stride, evenPtr + 1, evenEnd)
               IN ScanRows(v4, stride, height, y + 2, evenEnd)
  ELSE v

\* IntraFrameCompressor::compressFrame: the pixels it encodes, in order
CompressFrameScan(width, height) ==
  LET stride == width
      rowEnd == 0 + stride
      v0 == <<Visit(0, "raw", <<>>)>>
      v1 == ScanFirstRow(v0, 1, rowEnd)
  IN ScanRows(v1, stride, height, 1, rowEnd)

\* decompressFrame: the loop over the rest of the first row
RECURSIVE FillFirstRow(_, _, _)
FillFirstRow(v, pPtr, rowEnd) ==
  IF pPtr # rowEnd
  THEN FillFirstRow(Append(v, Visit(pPtr, "previous", <<pPtr - 1>>)), pPtr + 1, rowEnd)
  ELSE v

\* decompressFrame: the loop over the remaining pixels of an odd row
RECURSIVE FillOddRow(_, _, _, _)
FillOddRow(v, stride, pPtr, rowEnd) ==
  IF pPtr # rowEnd
  THEN FillOddRow(Append(v, Visit(pPtr, "paeth",
                                  <<pPtr + 1, pPtr - stride, pPtr - stride + 1>>)),
                  stride, pPtr - 1, rowEnd)
  ELSE v

\* decompressFrame: the loop over the remaining pixels of an even row
RECURSIVE FillEvenRow(_, _, _, _)
FillEvenRow(v, stride, pPtr, rowEnd) ==
  IF pPtr # rowEnd
  THEN FillEvenRow(Append(v, Visit(pPtr, "paeth",
                                   <<pPtr - 1, pPtr - stride, pPtr - stride - 1>>)),
                   stride, pPtr + 1, rowEnd)
  ELSE v

\* decompressFrame: the loop over the remaining rows
RECURSIVE FillRows(_, _, _, _, _)
FillRows(v, stride, height, y, pPtr) ==
  IF y < height
  THEN LET oddPtr == pPtr + (stride - 1)
           oddEnd == oddPtr - stride
           v1 == Append(v, Visit(oddPtr, "above", <<oddPtr - stride>>))
           v2 == FillOddRow(v1, stride, oddPtr - 1, oddEnd)
       IN IF y + 1 >= height
          THEN v2
          ELSE LET evenPtr == oddEnd + (stride + 1)
                   evenEnd == evenPtr + stride
                   v3 == Append(v2, Visit(evenPtr, "above", <<evenPtr - stride>>))
                   v4 == FillEvenRow(v3, stride, evenPtr + 1, evenEnd)
               IN FillRows(v4, stride, height, y + 2, evenEnd)
  ELSE v

\* IntraFrameDecompressor::decompressFrame: the pixels it writes, in order
DecompressFrameScan(width, height) ==
  LET stride == width
      rowEnd == 0 + stride
      v0 == <<Visit(0, "raw", <<>>)>>
      v1 == FillFirstRow(v0, 1, rowEnd)
  IN FillRows(v1, stride, height, 1, rowEnd)

ScanSizes ==
  {wh \in (1..MaxScanPixels) \X (1..MaxScanPixels) : wh[1] * wh[2] <= MaxScanPixels}

\* pixels0 holds the visits of compressFrame, decoded those of decompressFrame
InitScan ==
  /\ BitInit
  /\ LogIdle
  /\ HuffIdle
  /\ ServerIdle
  /\ \E wh \in ScanSizes : frameWidth = wh[1] /\ frameHeight = wh[2]
  /\ pixels0 = <<>>
  /\ pixels1 = <<>>
  /\ decoded = <<>>
  /\ codecPc = "grid"
  /\ zeroRunLength = 0

\* compressFrame(width, height, pixels)
CompressScan ==
  /\ codecPc = "grid"
  /\ pixels0' = CompressFrameScan(frameWidth, frameHeight)
  /\ codecPc' = "compressed"
  /\ UNCHANGED <<frameWidth, frameHeight, pixels1, decoded, zeroRunLength>>

\* decompressFrame(width, height, pixels)
DecompressScan ==
  /\ codecPc = "compressed"
  /\ decoded' = DecompressFrameScan(frameWidth, frameHeight)
  /\ codecPc' = "decompressed"
  /\ UNCHANGED <<frameWidth, frameHeight, pixels0, pixels1, zeroRunLength>>

NextScan ==
  \/ CompressScan /\ UNCHANGED <<bitVars, logVars, huffVars, serverVars>>
  \/ DecompressScan /\ UNCHANGED <<bitVars, logVars, huffVars, serverVars>>

SpecScan == InitScan /\ [][NextScan]_vars

\* The offsets of the pixels of a grid in serpentine order: row 0 from left to
\* right, row 1 from right to left, and so on
Serpentine(width, height) ==
  [k \in 1..(width * height) |->
     LET y == (k - 1) \div width
         x == (k - 1) % width
     IN y * width + (IF y % 2 = 0 THEN x ELSE width - 1 - x)]

\* The visits go through the grid in serpentine order and read only pixels of
\* the grid visited before
SerpentineVisits(v, width, height) ==
  /\ Len(v) = width * height
  /\ [k \in 1..Len(v) |-> v[k].pixel] = Serpentine(width, height)
  /\ \A k \in 1..Len(v) : \A n \in 1..Len(v[k].reads) :
       /\ v[k].reads[n] \in 0..(width * height - 1)
       /\ \E j \in 1..(k - 1) : v[j].pixel = v[k].reads[n]

-----------------------------------------------------------------------------
\* C21: compressFrame visits each of the width*height pixels once, in
\* serpentine order, every neighbour it reads lies inside the grid and was
\* visited earlier, and decompressFrame visits the pixels in the same order
\* and reads only pixels it has written.
ScanIsSerpentine ==
  /\ codecPc \in {"compressed", "decompressed"} =>
       SerpentineVisits(pixels0, frameWidth, frameHeight)
  /\ codecPc = "decompressed" =>
       /\ SerpentineVisits(decoded, frameWidth, frameHeight)
       /\ [k \in 1..Len(decoded) |-> decoded[k].pixel] =
            [k \in 1..Len(pixels0) |-> pixels0[k].pixel]

\* A grid of three rows of four pixels was compressed and decompressed: row 1
\* was visited from offset 7 down to 4, row 2 from offset 8 up.
ScanIsSerpentineWitness ==
  /\ codecPc = "decompressed"
  /\ frameWidth = 4
  /\ frameHeight = 3
  /\ pixels0[5].pixel = 7
  /\ pixels0[8].pixel = 4
  /\ pixels0[9].pixel = 8
  /\ decoded[12].pixel = 11

-----------------------------------------------------------------------------
(* The predictor of every pixel, under SpecScan                             *)

\* The offset of the pixel in column x of row y
At(x, y, width) == y * width + x

\* The side of a pixel that is visited before it in its row: the right (+1)
\* in the odd rows, the left (-1) in the even rows
VisitedSide(y) == IF y % 2 = 1 THEN 1 ELSE -1

\* The three-neighbour predictor over the horizontal neighbour on the visited
\* side, the vertical neighbour and the diagonal neighbour of pixel (x, y)
ThreeNeighbours(x, y, width) ==
  Visit(At(x, y, width), "paeth",
        <<At(x + VisitedSide(y), y, width), At(x, y - 1, width),
          At(x + VisitedSide(y), y - 1, width)>>)

\* The predictor of the pixel at an offset when every pixel below row 0 has
\* the three-neighbour predictor
StatedVisit(pixel, width) ==
  LET x == pixel % width
      y == pixel \div width
  IN IF pixel = 0 THEN Visit(0, "raw", <<>>)
     ELSE IF y = 0 THEN Visit(pixel, "previous", <<At(x - 1, 0, width)>>)
     ELSE ThreeNeighbours(x, y, width)

\* The predictor of the pixel at an offset when the pixel visited first in a
\* row below row 0, which has no visited neighbour in its row, is predicted
\* by the pixel above it
RowStartVisit(pixel, width) ==
  LET x == pixel % width
      y == pixel \div width
      first == IF y % 2 = 1 THEN width - 1 ELSE 0
  IN IF y > 0 /\ x = first
     THEN Visit(pixel, "above", <<At(x, y - 1, width)>>)
     ELSE StatedVisit(pixel, width)

\* C22 as stated: the first pixel is coded raw, the other pixels of row 0 are
\* predicted from the pixel visited before them, and every pixel of every
\* later row is predicted with the three-neighbour predictor.
EveryLaterPixelThreeNeighbours ==
  /\ codecPc \in {"compressed", "decompressed"} =>
       \A k \in 1..Len(pixels0) : pixels0[k] = StatedVisit(pixels0[k].pixel, frameWidth)
  /\ codecPc = "decompressed" =>
       \A k \in 1..Len(decoded) : decoded[k] = StatedVisit(decoded[k].pixel, frameWidth)

\* C22 amended: the first pixel is coded raw, the other pixels of row 0 are
\* predicted from the pixel visited before them, the pixel visited first in
\* every later row is predicted by the pixel above it, and every other pixel
\* of those rows is predicted with the three-neighbour predictor over its
\* horizontal neighbour on the visited side, its vertical and its diagonal
\* neighbour, in compression and in decompression.
LaterRowsStartFromAbove ==
  /\ codecPc \in {"compressed", "decompressed"} =>
       \A k \in 1..Len(pixels0) : pixels0[k] = RowStartVisit(pixels0[k].pixel, frameWidth)
  /\ codecPc = "decompressed" =>
       \A k \in 1..Len(decoded) : decoded[k] = RowStartVisit(decoded[k].pixel, frameWidth)

\* In a grid of three rows of three pixels, the last pixel of row 1 was
\* predicted by the pixel above it and the middle one by its right, upper and
\* upper right neighbours; the first pixel of row 2 by the pixel above it.
LaterRowsStartFromAboveWitness ==
  /\ codecPc = "decompressed"
  /\ frameWidth = 3
  /\ frameHeight = 3
  /\ pixels0[4] = Visit(5, "above", <<2>>)
  /\ decoded[5] = Visit(4, "paeth", <<5, 1, 2>>)
  /\ decoded[7] = Visit(6, "above", <<3>>)
  /\ pixels0[8] = Visit(7, "paeth", <<6, 4, 3>>)

-----------------------------------------------------------------------------
(* The zero-run counter of the inter-frame compressor, pixel by pixel       *)

\* Bound of the zero-run specification: the number of pixels of the grid
\* that differ from the reference grid
MaxRunChanges == 2

\* The grid: two rows that together hold two pixels more than the longest
\* zero run
RunWidth == maxZeroRunLength \div 2 + 1

RunHeight == (maxZeroRunLength + 2) \div RunWidth

\* The pixels that may differ: the first two and those around a zero run of
\* the maximum length
RunPositions ==
  {1, 2, maxZeroRunLength, maxZeroRunLength + 1, maxZeroRunLength + 2}

\* The differences: one coded directly and one escaped
RunDeltas == {1, codeMax + 1}

\* pixels0 and pixels1 hold the pixels from p0Ptr and from p1Ptr to the end
\* of the two grids
InitRun ==
  /\ BitInit
  /\ LogIdle
  /\ HuffIdle
  /\ ServerIdle
  /\ frameWidth = RunWidth
  /\ frameHeight = RunHeight
  /\ pixels0 = ReferenceGrid(RunWidth * RunHeight)
  /\ \E changed \in SUBSET RunPositions :
       /\ Cardinality(changed) <= MaxRunChanges
       /\ \E delta \in [changed -> RunDeltas] :
            pixels1 = [i \in 1..(RunWidth * RunHeight) |->
                         IF i \in changed
                         THEN Pixel(ReferenceGrid(RunWidth * RunHeight)[i] + delta[i])
                         ELSE ReferenceGrid(RunWidth * RunHeight)[i]]
  /\ decoded = <<>>
  /\ codecPc = "pixels"
  /\ zeroRunLength = 0

TheCompressor == [s |-> TheSink, zeroRunLength |-> zeroRunLength]

\* InterFrameCompressor::compressFrame, one pass of the loop over the pixels
RunPixel ==
  /\ codecPc = "pixels"
  /\ pixels1 # <<>>
  /\ \E c \in {InterCompressPixel(TheCompressor, interFrameCompressorCodebook,
                                  Pixel(Head(pixels1) - Head(pixels0)), wide) :
                 wide \in WideShiftOutcomes} :
       /\ SetSink(c.s)
       /\ zeroRunLength' = c.zeroRunLength
  /\ pixels0' = Tail(pixels0)
  /\ pixels1' = Tail(pixels1)
  /\ UNCHANGED <<filePos, sourceBuffer, usedBits, frameWidth, frameHeight, decoded,
                 codecPc>>

\* InterFrameCompressor::compressFrame, after the last pixel
RunEnd ==
  /\ codecPc = "pixels"
  /\ pixels1 = <<>>
  /\ \E c \in {InterCompressFrame(TheCompressor, interFrameCompressorCodebook,
                                  0, 0, pixels0, pixels1, wide) :
                 wide \in WideShiftOutcomes} :
       /\ SetSink(c.s)
       /\ zeroRunLength' = c.zeroRunLength
  /\ codecPc' = "compressed"
  /\ UNCHANGED <<filePos, sourceBuffer, usedBits, frameWidth, frameHeight, pixels0,
                 pixels1, decoded>>

NextRun ==
  \/ RunPixel /\ UNCHANGED <<logVars, huffVars, serverVars>>
  \/ RunEnd /\ UNCHANGED <<logVars, huffVars, serverVars>>

SpecRun == InitRun /\ [][NextRun]_vars

\* The symbol of a zero run of the given length
RunSymbol(length) == outOfRange + length

\* The sink after the symbol of the pending zero run, if there is one to emit
AfterRun(emit, wide) ==
  IF emit
  THEN Encode(TheSink, interFrameCompressorCodebook, RunSymbol(zeroRunLength), wide)
  ELSE TheSink

\* The sink after the symbol of a zero run that the present pixel completes
AfterFullRun(wide) ==
  Encode(TheSink, interFrameCompressorCodebook, RunSymbol(zeroRunLength + 1), wide)

\* The coding of a non-zero difference with no zero run pending
AfterDelta(s, delta, wide) ==
  InterCompressPixel([s |-> s, zeroRunLength |-> 0], interFrameCompressorCodebook,
                     delta, wide).s

\* What a step of the compressor may do to the sink and the counter
RunStep ==
  /\ zeroRunLength \in 0..maxZeroRunLength
  /\ zeroRunLength' \in 0..maxZeroRunLength
  /\ codecPc' = "compressed" => zeroRunLength' = 0
  /\ zeroRunLength > 0 =>
       /\ RunSymbol(zeroRunLength) \in (outOfRange + 1)..(numInterSymbols - 1)
       /\ RunSymbol(zeroRunLength) \notin 0..outOfRange
  /\ IF codecPc' = "compressed"
     THEN \* the grid ends: a pending run is emitted, and the stream flushed
          /\ \E wide \in WideShiftOutcomes :
               SetSink(SinkFlush(AfterRun(zeroRunLength > 0, wide), wide))
     ELSE LET delta == Pixel(Head(pixels1) - Head(pixels0))
          IN IF delta # 0
             THEN \* a non-zero difference: the pending run, then the difference
                  /\ zeroRunLength' = 0
                  /\ \E wide \in WideShiftOutcomes :
                       SetSink(AfterDelta(AfterRun(zeroRunLength > 0, wide), delta, wide))
             ELSE IF zeroRunLength + 1 = maxZeroRunLength
             THEN \* the counter reaches the cap: the run of that length
                  /\ zeroRunLength' = 0
                  /\ \E wide \in WideShiftOutcomes : SetSink(AfterFullRun(wide))
             ELSE \* the run goes on: nothing is emitted
                  /\ zeroRunLength' = zeroRunLength + 1
                  /\ SetSink(TheSink)

\* C23: during inter compression the counter of the pending zero run stays in
\* 0..maxZeroRunLength; a run symbol is emitted only for a run of 1 to
\* maxZeroRunLength pixels, as symbol outOfRange plus the length (above the
\* escape symbol and the direct symbols), and only when a non-zero difference
\* arrives, the counter reaches maxZeroRunLength or the grid ends; after each
\* emission and at the end of compressFrame the counter is 0.
ZeroRunCounterDiscipline == [][RunStep]_vars

\* A run of maxZeroRunLength pixels has just been emitted as the last symbol
\* of the code, the counter is 0 again and two pixels are left
ZeroRunCounterDisciplineWitness ==
  /\ codecPc = "pixels"
  /\ Len(pixels1) = 2
  /\ zeroRunLength = 0
  /\ \E wide \in WideShiftOutcomes :
       TheSink = Encode(NewSink(<<>>), interFrameCompressorCodebook,
                        outOfRange + maxZeroRunLength, wide)

-----------------------------------------------------------------------------
(* The layout of the decoding tree                                          *)

\* The interior nodes of a decoding tree, by index
InteriorIndices(tree) == {i \in 0..(Len(tree) - 1) : tree[i + 1].code = Interior}

\* The number of nodes of the subtree at nodeIndex
RECURSIVE SubtreeSize(_, _)
SubtreeSize(tree, nodeIndex) ==
  IF tree[nodeIndex + 1].code = Interior
  THEN 1 + SubtreeSize(tree, tree[nodeIndex + 1].childIndices[1])
         + SubtreeSize(tree, tree[nodeIndex + 1].childIndices[2])
  ELSE 1

\* The interior nodes that have node j as a child, with the child slot
ParentsOf(tree, j) ==
  {ik \in InteriorIndices(tree) \X {1, 2} : tree[ik[1] + 1].childIndices[ik[2]] = j}

\* C24: after buildTree on N >= 1 leaves, buildDecodingTree returns 2N-1
\* nodes in prefix order with the root at index 0: the first child of every
\* interior node is at its own index plus one and is followed by the whole of
\* its subtree, both child indices are larger than the node's and inside the
\* array, every node but the root is the child of exactly one interior node,
\* and each symbol 0..N-1 is carried by exactly one leaf.
DecodingTreeInPrefixOrder ==
  builderPc = "tables" =>
    /\ numLeaves >= 1
    /\ Len(decodingTree) = 2 * numLeaves - 1
    /\ \A i \in 0..(Len(decodingTree) - 1) :
         \/ decodingTree[i + 1].code = Interior
         \/ decodingTree[i + 1].code \in 0..(numLeaves - 1)
    /\ \A i \in InteriorIndices(decodingTree) :
         /\ decodingTree[i + 1].childIndices[1] = i + 1
         /\ decodingTree[i + 1].childIndices[2] > i + 1
         /\ decodingTree[i + 1].childIndices[2] < Len(decodingTree)
    /\ \A i \in InteriorIndices(decodingTree) :
         decodingTree[i + 1].childIndices[2] =
           i + 1 + SubtreeSize(decodingTree, decodingTree[i + 1].childIndices[1])
    /\ SubtreeSize(decodingTree, 0) = Len(decodingTree)
    /\ ParentsOf(decodingTree, 0) = {}
    /\ \A j \in 1..(Len(decodingTree) - 1) : Cardinality(ParentsOf(decodingTree, j)) = 1
    /\ \A s \in 0..(numLeaves - 1) :
         Cardinality({i \in 0..(Len(decodingTree) - 1) : decodingTree[i + 1].code = s}) = 1

\* The decoding tree of four leaves of equal frequency: the subtree of the
\* root's first child takes indices 1 to 3, the second child is at index 4
DecodingTreeInPrefixOrderWitness ==
  /\ builderPc = "tables"
  /\ numLeaves = 4
  /\ decodingTree[1].childIndices = <<1, 4>>
  /\ decodingTree[2].childIndices = <<2, 3>>
  /\ decodingTree[3].code \in 0..(numLeaves - 1)

-----------------------------------------------------------------------------
(* The embedded tables specification: one symbol of the intra-frame code is *)
(* encoded with the embedded codebook, the encoder is flushed, and the      *)
(* symbol is decoded with the embedded decoding tree.                       *)

InitTables ==
  /\ BitInit
  /\ LogIdle
  /\ HuffIdle
  /\ ServerIdle
  /\ frameWidth = 1
  /\ frameHeight = 1
  /\ pixels0 \in {<<symbol>> : symbol \in 0..(2 * codeMax + 1)}
  /\ pixels1 = <<>>
  /\ decoded = <<>>
  /\ codecPc = "symbol"
  /\ zeroRunLength = 0

\* HuffmanEncoder::encode(value) with the embedded codebook
EncodeSymbol ==
  /\ codecPc = "symbol"
  /\ \E s \in {Encode(TheSink, intraFrameCompressorCodebook, pixels0[1], wide) :
                 wide \in WideShiftOutcomes} : SetSink(s)
  /\ codecPc' = "encoded"
  /\ UNCHANGED <<filePos, sourceBuffer, usedBits, frameWidth, frameHeight, pixels0,
                 pixels1, decoded, zeroRunLength>>

\* HuffmanEncoder::flush()
FlushSymbol ==
  /\ codecPc = "encoded"
  /\ \E s \in {SinkFlush(TheSink, wide) : wide \in WideShiftOutcomes} : SetSink(s)
  /\ codecPc' = "flushed"
  /\ UNCHANGED <<filePos, sourceBuffer, usedBits, frameWidth, frameHeight, pixels0,
                 pixels1, decoded, zeroRunLength>>

\* HuffmanDecoder::decode() with the embedded decoding tree
DecodeSymbol ==
  /\ codecPc = "flushed"
  /\ \E res \in {Decode(TheSource, intraFrameDecompressorTree, wide) :
                   wide \in WideShiftOutcomes} :
       /\ decoded' = <<res[1]>>
       /\ SetSource(res[2])
  /\ codecPc' = "done"
  /\ UNCHANGED <<sinkBuffer, freeBits, file, frameWidth, frameHeight, pixels0,
                 pixels1, zeroRunLength>>

NextTables ==
  \/ EncodeSymbol /\ UNCHANGED <<logVars, huffVars, serverVars>>
  \/ FlushSymbol /\ UNCHANGED <<logVars, huffVars, serverVars>>
  \/ DecodeSymbol /\ UNCHANGED <<logVars, huffVars, serverVars>>

SpecTables == InitTables /\ [][NextTables]_vars

\* The node reached from index 0 along the first steps bits of a code
RECURSIVE Path(_, _, _)
Path(tree, code, steps) ==
  IF steps = 0 THEN 0
  ELSE tree[Path(tree, code, steps - 1) + 1].childIndices[CodeBit(code, steps) + 1]

\* The bits the reader has taken from the words it fetched
BitsConsumed == maxNumBits * filePos - usedBits

\* C25: the embedded intra-frame codebook of 514 entries and the embedded
\* decoding tree of 1027 nodes describe the same prefix code: the bits of the
\* code of every symbol, most significant first, lead from index 0 of the
\* tree to the leaf carrying the symbol after exactly numBits steps, and to
\* no leaf earlier; the decoder returns the symbol the encoder was given.
EmbeddedTablesAgree ==
  LET symbol == pixels0[1]
      code == intraFrameCompressorCodebook[symbol + 1]
  IN /\ Len(intraFrameCompressorCodebook) = 2 * codeMax + 2
     /\ Len(intraFrameDecompressorTree) = 2 * Len(intraFrameCompressorCodebook) - 1
     /\ code.numBits \in 1..maxNumBits
     /\ \A steps \in 0..(code.numBits - 1) :
          intraFrameDecompressorTree[Path(intraFrameDecompressorTree, code, steps) + 1].code
            = Interior
     /\ intraFrameDecompressorTree[Path(intraFrameDecompressorTree, code, code.numBits) + 1]
          = [code |-> symbol, childIndices |-> <<0, 0>>]
     /\ codecPc = "done" =>
          /\ decoded = <<symbol>>
          /\ BitsConsumed = code.numBits

\* The escape symbol, the last of the codebook, was encoded and decoded
EmbeddedTablesAgreeWitness ==
  /\ codecPc = "done"
  /\ pixels0 = <<2 * codeMax + 1>>
  /\ decoded = pixels0
  /\ filePos = 1

-----------------------------------------------------------------------------
(* The synchronisation specification: tables are built from a list of       *)
(* leaves, symbols are encoded with the codebook, the encoder is flushed,   *)
(* and as many symbols are decoded with the decoding tree.                  *)

\* Bound of the synchronisation specification: the symbols encoded
MaxSyncSymbols == 2

\* HuffmanEncoder::encode(value) with the codebook built
SyncEncode(value) ==
  /\ builderPc = "tables"
  /\ ~codebook.thrown
  /\ phase = "idle"
  /\ Len(written) < MaxSyncSymbols
  /\ \E s \in {Encode(TheSink, codebook.codes, value, wide) :
                 wide \in WideShiftOutcomes} : SetSink(s)
  /\ written' = Append(written, value)
  /\ UNCHANGED <<filePos, sourceBuffer, usedBits, readValues, phase>>

\* HuffmanEncoder::flush()
SyncFlush ==
  /\ builderPc = "tables"
  /\ phase = "idle"
  /\ written # <<>>
  /\ \E s \in {SinkFlush(TheSink, wide) : wide \in WideShiftOutcomes} : SetSink(s)
  /\ phase' = "read"
  /\ UNCHANGED <<filePos, sourceBuffer, usedBits, written, readValues>>

\* HuffmanDecoder::decode() with the decoding tree built
SyncDecode ==
  /\ phase = "read"
  /\ Len(readValues) < Len(written)
  /\ \E res \in {Decode(TheSource, decodingTree, wide) : wide \in WideShiftOutcomes} :
       /\ readValues' = Append(readValues, res[1])
       /\ SetSource(res[2])
  /\ UNCHANGED <<sinkBuffer, freeBits, file, written, phase>>

NextSync ==
  \/ \E f \in Frequencies : AddLeaf(f) /\ UNCHANGED <<bitVars, logVars, codecVars, serverVars>>
  \/ BuildTreeStart /\ UNCHANGED <<bitVars, logVars, codecVars, serverVars>>
  \/ BuildTreeMerge /\ UNCHANGED <<bitVars, logVars, codecVars, serverVars>>
  \/ BuildTreeEnd /\ UNCHANGED <<bitVars, logVars, codecVars, serverVars>>
  \/ BuildTables /\ UNCHANGED <<bitVars, logVars, codecVars, serverVars>>
  \/ \E value \in 0..(numLeaves - 1) :
       SyncEncode(value) /\ UNCHANGED <<huffVars, codecVars, serverVars>>
  \/ SyncFlush /\ UNCHANGED <<huffVars, codecVars, serverVars>>
  \/ SyncDecode /\ UNCHANGED <<huffVars, codecVars, serverVars>>

SpecSync == InitHuffman /\ [][NextSync]_vars

\* The bits the encoder wrote for the first k symbols
RECURSIVE BitsWritten(_)
BitsWritten(k) ==
  IF k = 0 THEN 0 ELSE BitsWritten(k - 1) + codebook.codes[written[k] + 1].numBits

\* C26: for every table built from a nonempty list of leaves, a list of a
\* single leaf included, the decoder has consumed, after each symbol, exactly
\* the bits the encoder wrote for the symbols decoded so far.
DecoderStaysSynchronised ==
  phase = "read" => maxNumBits * filePos - usedBits = BitsWritten(Len(readValues))

-----------------------------------------------------------------------------
(* The frame sequence specification: two grids of the same size are         *)
(* compressed into one transport by one compressor and decompressed from it *)
(* by one decompressor.                                                     *)

\* Bound of the frame sequence specification: the number of pixels of a grid
MaxFramePixels == 4

\* Pixel values whose differences are coded directly and escaped
FramePixelValues == {0, 300}

FrameSizes ==
  {wh \in (1..MaxFramePixels) \X (1..MaxFramePixels) : wh[1] * wh[2] <= MaxFramePixels}

\* pixels0 is the grid sent first and pixels1 the grid sent second; written
\* holds the number of words in the transport after each compressFrame call
InitFrames ==
  /\ BitInit
  /\ HuffIdle
  /\ ServerIdle
  /\ written = <<>>
  /\ readValues = <<>>
  /\ phase = "idle"
  /\ \E wh \in FrameSizes :
       /\ frameWidth = wh[1]
       /\ frameHeight = wh[2]
       /\ pixels0 \in [1..(wh[1] * wh[2]) -> FramePixelValues]
       /\ pixels1 \in [1..(wh[1] * wh[2]) -> FramePixelValues]
  /\ decoded = <<>>
  /\ codecPc = "start"
  /\ zeroRunLength = 0

\* IntraFrameCompressor::compressFrame(width, height, pixels), for the first
\* and for the second grid
CompressNextFrame ==
  /\ codecPc = "start"
  /\ Len(written) < 2
  /\ \E s \in {IntraCompressFrame(TheSink, intraFrameCompressorCodebook, frameWidth,
                                  frameHeight,
                                  IF written = <<>> THEN pixels0 ELSE pixels1, wide) :
                 wide \in WideShiftOutcomes} :
       /\ SetSink(s)
       /\ written' = Append(written, Len(s.file))
  /\ codecPc' = IF written = <<>> THEN "start" ELSE "compressed"
  /\ UNCHANGED <<filePos, sourceBuffer, usedBits, readValues, phase, frameWidth,
                 frameHeight, pixels0, pixels1, decoded, zeroRunLength>>

\* IntraFrameDecompressor::decompressFrame(width, height, pixels), for the
\* first and for the second grid; readValues holds the number of words read
\* from the transport after each call
DecompressNextFrame ==
  /\ codecPc = "compressed"
  /\ Len(readValues) < 2
  /\ \E d \in {IntraDecompressFrame(TheSource, intraFrameDecompressorTree,
                                    frameWidth, frameHeight,
                                    UnsetPixels(frameWidth * frameHeight), wide) :
                 wide \in WideShiftOutcomes} :
       /\ SetSource(d.r)
       /\ decoded' = d.px
       /\ readValues' = Append(readValues, d.r.pos)
  /\ UNCHANGED <<sinkBuffer, freeBits, file, written, phase, frameWidth, frameHeight,
                 pixels0, pixels1, zeroRunLength, codecPc>>

NextFrames ==
  \/ CompressNextFrame /\ UNCHANGED <<huffVars, serverVars>>
  \/ DecompressNextFrame /\ UNCHANGED <<huffVars, serverVars>>

SpecFrames == InitFrames /\ [][NextFrames]_vars

\* C27: every intra compressFrame call leaves the writer's register empty,
\* so each compressed grid is a whole number of words; the matching
\* decompressFrame call reads exactly the words of its grid from the
\* transport, none of the grid that follows, reconstructs the grid and leaves
\* the reader's register empty.
FramesAreWholeWords ==
  /\ freeBits = maxNumBits
  /\ sinkBuffer = Zero32
  /\ Len(written) >= 1 => written[Len(written)] = Len(file)
  /\ usedBits = 0
  /\ sourceBuffer = Zero32
  /\ \A k \in 1..Len(readValues) : readValues[k] = written[k]
  /\ Len(readValues) = 1 => decoded = pixels0 /\ filePos = written[1]
  /\ Len(readValues) = 2 => decoded = pixels1 /\ filePos = written[2]

\* Two grids of different length in the transport, the first longer than one
\* word, were both decompressed
FramesAreWholeWordsWitness ==
  /\ Len(readValues) = 2
  /\ written[1] >= 2
  /\ written[2] = written[1] + 1
  /\ pixels0 # pixels1

-----------------------------------------------------------------------------
(* The count of streaming clients                                           *)

\* The clients a step removes from the client list
Disconnected == Ids(clients) \ Ids(clients')

\* What a step of the communication thread does to numClients
NumClientsStep ==
  /\ numClients = Cardinality(Streaming(clients))
  /\ numClients' = Cardinality(Streaming(clients'))
  /\ numClients' \in 0..MaxConnections
  /\ Disconnected # {} =>
       numClients' = numClients - Cardinality(Disconnected \cap Streaming(clients))

\* C28: after every message callback, connection callback and broadcast
\* cycle of the communication thread numClients is the number of clients of
\* the list in state INTRA or INTER and is not negative; a disconnect of a
\* streaming client reduces it by exactly one and a disconnect of a client
\* in START leaves it as it is.
NumClientsCountsStreaming == [][NumClientsStep]_vars

\* A send failure in the second or a later broadcast cycle disconnected a
\* streaming client, and the one client left in the list is streaming
NumClientsCountsStreamingWitness ==
  /\ departed # <<>>
  /\ departed.reason = "sendFailure"
  /\ numClients = 1
  /\ Len(clients) = 1
  /\ numBroadcasts >= 2

-----------------------------------------------------------------------------
(* The shift counts of the bit sink and the bit source                      *)

\* The counts of the shifts BitSink::write(bits, numBits) performs
SinkWriteShifts(s, numBits) ==
  IF s.freeBits >= numBits THEN {numBits}
  ELSE IF s.freeBits = 0 THEN {}
  ELSE {s.freeBits, numBits - s.freeBits}

\* The counts of the shifts BitSink::flush() performs
SinkFlushShifts(s) == IF s.freeBits # maxNumBits THEN {s.freeBits} ELSE {}

\* The counts of the shifts BitSource::read(numBits) performs
SourceReadShifts(r, numBits) ==
  (IF r.usedBits >= numBits THEN {numBits}
   ELSE IF r.usedBits = 0 THEN {numBits}
   ELSE {r.usedBits, numBits - r.usedBits}) \cup {maxNumBits - numBits}

\* The counts of the shifts BitSource::readBit() performs
SourceReadBitShifts == {maxNumBits - 1, 1}

\* The shift counts defined for a register of maxNumBits bits
DefinedShifts == 0..(maxNumBits - 1)

\* The counts of the shifts the operation of a step performs
StepShifts ==
  IF Len(written') > Len(written)
  THEN SinkWriteShifts(TheSink, written'[Len(written')][2])
  ELSE IF phase' # phase
  THEN SinkFlushShifts(TheSink)
  ELSE IF Len(readValues') > Len(readValues)
  THEN LET width == written[Len(readValues) + 1][2]
       IN IF width = 1
          THEN SourceReadShifts(TheSource, width) \cup SourceReadBitShifts
          ELSE SourceReadShifts(TheSource, width)
  ELSE {}

\* C29: the free bits of a sink and the valid bits of a source are always in
\* 0..32, whatever values of 1 to 32 bits are written, read and flushed, and
\* no shift these operations perform on the 32-bit register has a count
\* outside 0..31.
ShiftCountsDefined ==
  [][/\ freeBits \in 0..maxNumBits
     /\ freeBits' \in 0..maxNumBits
     /\ usedBits \in 0..maxNumBits
     /\ usedBits' \in 0..maxNumBits
     /\ StepShifts \subseteq DefinedShifts]_vars

-----------------------------------------------------------------------------
(* The children of a merged node                                            *)

\* The heap element of node i of the code creation tree
SorterOf(i) == [index |-> i, frequency |-> codeNodes[i + 1].frequency]

\* A step is a pass of the loop of buildTree
IsMergeStep == builderPc = "build" /\ Len(codeNodes') = Len(codeNodes) + 1

\* The new parent's child of the given child index (0 or 1)
ChildOfNew(childIndex) == codeNodes'[Len(codeNodes')].childIndices[childIndex + 1]

\* The pass extracted the node first and then the node second from the heap
\* and made them the children of the new parent with the given child indices
ExtractedAs(first, firstIndex, second, secondIndex) ==
  /\ SorterOf(first) \in Smallest(nodeSorter)
  /\ SorterOf(second) \in Smallest(nodeSorter \ {SorterOf(first)})
  /\ codeNodes'[first + 1].parentChildIndex = firstIndex
  /\ codeNodes'[second + 1].parentChildIndex = secondIndex
  /\ codeNodes'[first + 1].parent = Len(codeNodes)
  /\ codeNodes'[second + 1].parent = Len(codeNodes)

=============================================================================
